---- MODULE Spec2Model ----
(***************************************************************************)
(* Verification model of the CAN ingestion service                         *)
(* (src/installer/car-to-influx/listener.py), of the file uploader         *)
(* (src/installer/file-uploader/helper.py, app.py), of the row parser of  *)
(* src/data-ingest/file_processor.py, of the runs repository and its JSON  *)
(* store (src/installer/data-downloader/backend/storage.py), of the        *)
(* startup data loader (src/installer/startup-data-loader/load_data.py),   *)
(* of the code generation service                                          *)
(* (src/installer/sandbox/code_generator.py), of the zip handler of        *)
(* src/data-ingest/file_processor.py, of the event handler of the Slack    *)
(* bot (src/installer/slackbot/slack_bot.py) and of the full scan of the   *)
(* data downloader (src/installer/data-downloader/backend/services.py).    *)
(*                                                                         *)
(* Numbers.  The timestamp thresholds of _ts_to_datetime exceed the 32-bit *)
(* integers of the model checker, so a raw timestamp is the pair <<hi, lo>>*)
(* standing for hi * 10^6 + lo with 0 <= lo < 10^6.  Raw timestamps are    *)
(* whole numbers; instants and the relative device clock are kept in       *)
(* milliseconds, so that ts / 1000.0 of the code is exact.                 *)
(*                                                                         *)
(* Instants.  [clock |-> "epoch", ms |-> <<hi, lo>>] is an instant given   *)
(* in milliseconds since the Unix epoch (datetime.fromtimestamp);          *)
(* [clock |-> "wall", ms |-> n] is the instant n milliseconds after the    *)
(* module was imported (datetime.now and offsets from it).                 *)
(***************************************************************************)
EXTENDS Integers, Sequences, FiniteSets, TLC

VARIABLES
    _first_relative,        \* listener.py:31
    _relative_anchor_ts,    \* listener.py:32   (ms of device clock)
    _relative_anchor_real,  \* listener.py:33   (ms of wall clock)
    _last_raw_ts,           \* listener.py:34   (ms of device clock)
    now,                    \* the wall clock read by datetime.now(timezone.utc)
    hist,                   \* the calls of _ts_to_datetime made so far
    thr,                    \* per request thread: position in _ts_to_datetime and its locals
    base,                   \* anchor state when the running group of overlapping calls began
    round,                  \* the calls of the running group that have returned
    req,                    \* the /can request being handled by ingest_can and its locals
    resp,                   \* the outcome of the last /can request
    cancel,                 \* a cancellation was raised for the running /can request
    main,                   \* upload_file.worker: position in stream_to_influx and close
    prod,                   \* the _producer task: position in process_file and its locals
    queue,                  \* asyncio.Queue(maxsize=self.max_queue_size), helper.py:643
    unfinished,             \* the queue's count of items put and not yet task_done
    upl,                    \* the _uploader tasks: position and the item taken
    stats,                  \* ProgressStats, helper.py:47-53
    _consecutive_failures,  \* helper.py:73
    _write_callbacks,       \* helper.py:75 (the keys: the writes still tracked)
    puts,                   \* every batch the producer has put on the queue
    writes,                 \* every call of write_api.write and what became of it
    reported,               \* the last on_progress(sent, total): sent, or -1 before any
    sink,                   \* the calls close() has made on write_api and client
    message_cache,          \* listener.py:48 (the keys)
    can_id_hex_cache,       \* listener.py:49 (the keys)
    signal_definition_cache,\* listener.py:46 (the keys)
    signal_cache_lock,      \* listener.py:47: the thread holding it, or 0
    cth,                    \* per request thread: position in ingest_can's cache accesses
    nreq,                   \* the requests started so far
    next_id,                \* the CAN ids below it have been used by bulk requests
    dec,                    \* the decoded signals of one frame and the points made of them
    norm,                   \* a data field in its three forms and what each normalizes to
    rd,                     \* one frame as sent and the readings each ingestion path made of it
    store,                  \* storage.py: the payload in the runs file of a RunsRepository
    clock,                  \* the instants now_iso() has returned so far
    mrg,                    \* merge_scanned_runs: its position and locals
    upd,                    \* update_note: its position and locals
    last_note,              \* per run key: the note of the last update_note that returned
    store_path,             \* storage.py:19, JSONStore.path: the inode the name refers to
    files,                  \* the inodes of the directory and what each holds
    lock,                   \* storage.py:21, JSONStore._lock of each JSONStore object
    wr,                     \* per writer: position in JSONStore.write and its temporary file
    rdr,                    \* the reader: position in JSONStore.read and what it has read
    nwrites,                \* the calls of JSONStore.write started so far
    rows,                   \* load_data.py: the rows of the CSV file being loaded
    ld,                     \* the loader process: position in stream_csv and its locals
    progress_file,          \* load_data_progress.json: the FileProgress of the file
    buffered,               \* the rows handed to the batching write_api and not yet sent
    influx,                 \* the rows that have reached InfluxDB
    written,                \* every row passed to write_api.write, with the run that passed it
    runs,                   \* the number of times the loader has been started
    gen,                    \* code_generator.py: one /api/generate-code request and its locals
    disk,                   \* load_data.py: per CSV path of the data directory, its content
    progress_state,         \* load_data_progress.json: completed_files and file_progress
    sk,                     \* load_startup_data: its position and files_to_process
    completed_with,         \* the <<path, hash>> that stream_csv has streamed to the end
    skipped,                \* the <<path, hash>> the filter of load_startup_data has skipped
    loads,                  \* the number of times load_startup_data has been started
    CURRENT_FILE,           \* file-uploader/app.py:21, its "task_id" (0 for "")
    PROGRESS,               \* app.py:20, per task id what on_progress has recorded
    hnd,                    \* per POST /upload being handled: its position in upload_file
    wkr,                    \* per task id: the worker thread started for it
    nposts,                 \* the POST /upload requests received so far
    ingest,                 \* data-ingest/file_processor.py: the paths present in INGEST_DIR
    processed,              \* the names moved to PROCESSED_DIR, in order
    temp_csv,               \* the temporary cleaned CSV of the handling under way
    processing_files,       \* file_processor.py:332, ZipFileHandler.processing_files
    zh,                     \* on_created: its position and locals
    nevents,                \* the events delivered to on_created so far
    slack_events,           \* slackbot/slack_bot.py: per message ts, the event Slack holds
    processed_messages,     \* slack_bot.py:17
    dispatched,             \* per message ts, the times a command handler was called for it
    ndeliveries,            \* the events delivered to process_events so far
    scanner_status,         \* data-downloader: the payload of scanner_status.json
    sc,                     \* per caller of run_full_scan: its position and locals
    nscans                  \* the calls of run_full_scan made so far

anchorVars == <<_first_relative, _relative_anchor_ts, _relative_anchor_real, _last_raw_ts>>
concVars == <<thr, base, round>>
ingestVars == <<req, resp, cancel>>
listenerVars == <<_first_relative, _relative_anchor_ts, _relative_anchor_real, _last_raw_ts,
                  now, hist, thr, base, round, req, resp, cancel>>
streamVars == <<main, prod, queue, unfinished, upl, stats, _consecutive_failures,
                _write_callbacks, puts, writes, reported, sink>>
cacheVars == <<message_cache, can_id_hex_cache, signal_definition_cache, signal_cache_lock,
               cth, nreq, next_id>>
pureVars == <<dec, norm>>
frameVars == <<rd>>
storeVars == <<store, clock, mrg, upd, last_note>>
fileVars == <<store_path, files, lock, wr, rdr, nwrites>>
loadVars == <<rows, ld, progress_file, buffered, influx, written, runs>>
genVars == <<gen>>
skipVars == <<disk, progress_state, sk, completed_with, skipped, loads>>
postVars == <<CURRENT_FILE, PROGRESS, hnd, wkr, nposts>>
zipVars == <<ingest, processed, temp_csv, processing_files, zh, nevents>>
slackVars == <<slack_events, processed_messages, dispatched, ndeliveries>>
scanVars == <<scanner_status, sc, nscans>>
lastVars == <<skipVars, postVars, zipVars, slackVars, scanVars>>
moreVars == <<frameVars, storeVars, fileVars, loadVars, genVars, lastVars>>
exceptGen == <<listenerVars, streamVars, cacheVars, pureVars, frameVars, storeVars, fileVars, loadVars, lastVars>>
exceptFrame == <<listenerVars, streamVars, cacheVars, pureVars, storeVars, fileVars, loadVars, genVars, lastVars>>
exceptStore == <<listenerVars, streamVars, cacheVars, pureVars, frameVars, fileVars, loadVars, genVars, lastVars>>
exceptFile == <<listenerVars, streamVars, cacheVars, pureVars, frameVars, storeVars, loadVars, genVars, lastVars>>
exceptLoad == <<listenerVars, streamVars, cacheVars, pureVars, frameVars, storeVars, fileVars, genVars, lastVars>>
baseVars == <<listenerVars, streamVars, cacheVars, pureVars, frameVars, storeVars, fileVars,
              loadVars, genVars>>
exceptSkip == <<baseVars, postVars, zipVars, slackVars, scanVars>>
exceptPost == <<baseVars, skipVars, zipVars, slackVars, scanVars>>
exceptZip == <<baseVars, skipVars, postVars, slackVars, scanVars>>
exceptSlack == <<baseVars, skipVars, postVars, zipVars, scanVars>>
exceptScan == <<baseVars, skipVars, postVars, zipVars, slackVars>>
restVars == <<streamVars, cacheVars, pureVars, moreVars>>
vars == <<listenerVars, restVars>>

(***************************************************************************)
(* Bounds                                                                  *)
(***************************************************************************)
MaxNow == 2
MaxCalls == 3

(***************************************************************************)
(* Wide numbers                                                            *)
(***************************************************************************)
Gt(a, b) == a[1] > b[1] \/ (a[1] = b[1] /\ a[2] > b[2])

ToInt(a) == a[1] * 1000000 + a[2]

Mul1000(a) == <<a[1] * 1000 + ((a[2] * 1000) \div 1000000), (a[2] * 1000) % 1000000>>

Abs(n) == IF n < 0 THEN -n ELSE n

(***************************************************************************)
(* _ts_to_datetime                                                         *)
(***************************************************************************)
AbsMsThreshold == <<978307, 200000>>   \* 978_307_200_000
AbsSecThreshold == <<946, 684800>>     \* 946_684_800
RelMsThreshold == <<1, 0>>             \* 1_000_000
ResetThresholdMs == 60000              \* timedelta(seconds=60)

Epoch(ms) == [clock |-> "epoch", ms |-> ms]
Wall(ms) == [clock |-> "wall", ms |-> ms]

IsAbsMs_ge(ts) == ~Gt(AbsMsThreshold, ts)
IsAbsMs(ts) == Gt(ts, AbsMsThreshold)

IsAbsSec(ts) == Gt(ts, AbsSecThreshold)

IsRelMs(ts) == Gt(ts, RelMsThreshold)

\* the relative timestamp in milliseconds after the unit conversion of lines 192-195
RelTs(ts) == IF IsRelMs(ts) THEN ToInt(ts) ELSE ToInt(ts) * 1000

Anchor == [first_relative |-> _first_relative,
           anchor_ts |-> _relative_anchor_ts,
           anchor_real |-> _relative_anchor_real,
           last_raw_ts |-> _last_raw_ts]

AbsoluteCall_touch(g, ms, path) ==
    [g |-> [g EXCEPT !.first_relative = FALSE], elapsed |-> 0, path |-> path, ret |-> Epoch(ms)]
AbsoluteCall(g, ms, path) ==
    [g |-> g, elapsed |-> 0, path |-> path, ret |-> Epoch(ms)]

FirstRelative(g, t, current_time) ==
    [g |-> [first_relative |-> FALSE, anchor_ts |-> t,
            anchor_real |-> current_time, last_raw_ts |-> t],
     elapsed |-> 0, path |-> "first", ret |-> Wall(current_time)]

ResetDetected_never(g, t) == FALSE
ResetDetected(g, t) ==
    t < g.last_raw_ts /\ (g.last_raw_ts - t) > ResetThresholdMs

Elapsed_last(g, t) == t - g.last_raw_ts
Elapsed(g, t) == t - g.anchor_ts

SignificantJump_full(elapsed) == Abs(elapsed) > ResetThresholdMs
SignificantJump(elapsed) == 2 * Abs(elapsed) > ResetThresholdMs

LaterRelative(g, t, current_time) ==
    LET g1 == IF ResetDetected(g, t)
              THEN [g EXCEPT !.anchor_real = current_time, !.anchor_ts = t]
              ELSE g
        g2 == [g1 EXCEPT !.last_raw_ts = t]
        elapsed == Elapsed(g2, t)
    IN  IF elapsed < 0
        THEN IF SignificantJump(elapsed)
             THEN [g |-> [g2 EXCEPT !.anchor_real = current_time, !.anchor_ts = t],
                   elapsed |-> elapsed, path |-> "reanchor", ret |-> Wall(current_time)]
             ELSE [g |-> g2, elapsed |-> elapsed, path |-> "hold",
                   ret |-> Wall(g2.anchor_real)]
        ELSE [g |-> g2, elapsed |-> elapsed, path |-> "offset",
              ret |-> Wall(g2.anchor_real + elapsed)]

\* _ts_to_datetime(ts) run on the anchor state g when datetime.now() reads current_time
TsToDatetime(g, ts, current_time) ==
    IF IsAbsMs(ts) THEN AbsoluteCall(g, ts, "abs_ms")
    ELSE IF IsAbsSec(ts) THEN AbsoluteCall(g, Mul1000(ts), "abs_s")
    ELSE IF g.first_relative THEN FirstRelative(g, RelTs(ts), current_time)
    ELSE LaterRelative(g, RelTs(ts), current_time)

(***************************************************************************)
(* The reconciler alone: successive calls of _ts_to_datetime by one caller *)
(***************************************************************************)
RawTimestamps ==
    { <<0, 2>>, <<0, 40>>, <<0, 70>>, <<0, 100>>, <<0, 105>>,
      <<0, 999990>>, <<1, 0>>, <<1, 10>>, <<1, 30000>>,
      <<946, 684799>>, <<946, 684800>>, <<946, 684801>>,
      <<978307, 200000>>, <<978307, 200001>> }

AnchorInit ==
    /\ _first_relative = TRUE
    /\ _relative_anchor_ts = 0
    /\ _relative_anchor_real = 0
    /\ _last_raw_ts = 0

SetAnchor(g) ==
    /\ _first_relative' = g.first_relative
    /\ _relative_anchor_ts' = g.anchor_ts
    /\ _relative_anchor_real' = g.anchor_real
    /\ _last_raw_ts' = g.last_raw_ts

Threads == {1, 2}

IdleThread == [pc |-> "idle", ts |-> <<0, 0>>, t |-> 0, current_time |-> 0, elapsed |-> 0]

FreshAnchor == [first_relative |-> TRUE, anchor_ts |-> 0, anchor_real |-> 0, last_raw_ts |-> 0]

ConcIdle ==
    /\ thr = [t \in Threads |-> IdleThread]
    /\ base = FreshAnchor
    /\ round = <<>>

NoRequest == [pc |-> "idle", frames |-> <<>>, idx |-> 0, points |-> <<>>,
              frame_errors |-> 0, outcome |-> <<>>]

NoResponse == [kind |-> "none"]

IngestIdle ==
    /\ req = NoRequest
    /\ resp = NoResponse
    /\ cancel = FALSE

Uploaders == {1, 2}

NoBatch == [sentinel |-> FALSE, points |-> <<>>, rows |-> 0]

IdleUploader == [pc |-> "idle", item |-> NoBatch, delay |-> 0]

IdleProducer == [pc |-> "idle", file |-> 0, yielded |-> 0, batch |-> <<>>, rows_in_batch |-> 0]

StreamIdle ==
    /\ main = [pc |-> "idle", is_csv |-> FALSE, n |-> 0]
    /\ prod = IdleProducer
    /\ queue = <<>>
    /\ unfinished = 0
    /\ upl = [u \in Uploaders |-> IdleUploader]
    /\ stats = [processed_rows |-> 0, failed_rows |-> 0, pending_writes |-> 0]
    /\ _consecutive_failures = 0
    /\ _write_callbacks = {}
    /\ puts = <<>>
    /\ writes = <<>>
    /\ reported = -1
    /\ sink = <<>>

IdleCacheThread == [pc |-> "idle", frames |-> <<>>, idx |-> 0, sig |-> 0]

CacheIdle ==
    /\ message_cache = {}
    /\ can_id_hex_cache = {}
    /\ signal_definition_cache = {}
    /\ signal_cache_lock = 0
    /\ cth = [t \in Threads |-> IdleCacheThread]
    /\ nreq = 0
    /\ next_id = 1000

NoSignals == [decoded |-> <<>>, by |-> "none", points |-> <<>>]

NotRun == [exc |-> "none", bytes |-> <<>>]

NoField == [values |-> <<>>, out |-> [form \in {"list", "decimal", "hex"} |-> NotRun]]

PureIdle ==
    /\ dec = NoSignals
    /\ norm = NoField

StreamCacheIdle ==
    /\ StreamIdle
    /\ CacheIdle

NoFrame == [k |-> "none"]

FrameIdle == rd = NoFrame

Keys == {1, 2}

EmptyStore == [updated_at |-> 0, runs |-> <<>>]

IdleMerge == [pc |-> "idle", n |-> 0, scanned |-> {}, current |-> EmptyStore,
              payload |-> EmptyStore]

IdleUpdate == [pc |-> "idle", key |-> 0, note |-> "", payload |-> EmptyStore]

StoreIdle ==
    /\ store = EmptyStore
    /\ clock = 0
    /\ mrg = IdleMerge
    /\ upd = IdleUpdate
    /\ last_note = [k \in Keys |-> ""]

Writers == {1, 2}

IdleWriter == [pc |-> "idle", tmp |-> 0, payload |-> 0, written |-> 0]

IdleReader == [pc |-> "idle", ino |-> 0, got |-> <<>>, replaced |-> FALSE]

FileIdle ==
    /\ store_path = 0
    /\ files = <<>>
    /\ lock = <<0, 0>>
    /\ wr = [w \in Writers |-> IdleWriter]
    /\ rdr = IdleReader
    /\ nwrites = 0

NoProgress == [exists |-> FALSE, processed_rows |-> 0, completed |-> FALSE]

StoppedLoader == [pc |-> "stopped", resume_offset |-> 0, current_row |-> 0, pos |-> 0,
                  batch_lines |-> <<>>, processed_rows |-> 0]

LoadIdle ==
    /\ rows = <<>>
    /\ ld = StoppedLoader
    /\ progress_file = NoProgress
    /\ buffered = {}
    /\ influx = {}
    /\ written = {}
    /\ runs = 0

NoCall == [pc |-> "idle", MAX_RETRIES |-> 0, attempt |-> 0, retry_info |-> <<>>,
           results |-> <<>>, response |-> [code |-> 0]]

GenIdle == gen = NoCall

NoProgressState == [completed_files |-> {}, file_progress |-> <<>>]

StoppedScan == [pc |-> "stopped", files_to_process |-> <<>>]

SkipIdle ==
    /\ disk = <<>>
    /\ progress_state = NoProgressState
    /\ sk = StoppedScan
    /\ completed_with = {}
    /\ skipped = {}
    /\ loads = 0

Handlers == {1, 2}

PostIdle ==
    /\ CURRENT_FILE = 0
    /\ PROGRESS = <<>>
    /\ hnd = [r \in Handlers |-> "idle"]
    /\ wkr = <<>>
    /\ nposts = 0

IdleHandler == [pc |-> "idle", src_path |-> "", cleaning_ok |-> FALSE, upload |-> "none",
                move_original_to_processed |-> FALSE, remove_raised |-> FALSE]

ZipIdle ==
    /\ ingest = {}
    /\ processed = <<>>
    /\ temp_csv = "none"
    /\ processing_files = {}
    /\ zh = IdleHandler
    /\ nevents = 0

SlackIdle ==
    /\ slack_events = <<>>
    /\ processed_messages = {}
    /\ dispatched = <<>>
    /\ ndeliveries = 0

Scanners == {"manual", "periodic"}

DefaultStatus == [scanning |-> FALSE, source |-> "", last_result |-> "", error |-> <<>>]

IdleScan == [pc |-> "idle", payload |-> DefaultStatus, i |-> 0, errors |-> <<>>,
             attempt |-> 0, how |-> "", alone |-> TRUE]

ScanIdle ==
    /\ scanner_status = DefaultStatus
    /\ sc = [s \in Scanners |-> IdleScan]
    /\ nscans = 0

LastIdle ==
    /\ SkipIdle
    /\ PostIdle
    /\ ZipIdle
    /\ SlackIdle
    /\ ScanIdle

MoreIdle ==
    /\ FrameIdle
    /\ StoreIdle
    /\ FileIdle
    /\ LoadIdle
    /\ GenIdle
    /\ LastIdle

RestIdle ==
    /\ StreamCacheIdle
    /\ PureIdle
    /\ MoreIdle

InitTs ==
    /\ AnchorInit
    /\ now = 0
    /\ hist = <<>>
    /\ ConcIdle
    /\ IngestIdle
    /\ RestIdle

Tick ==
    /\ now < MaxNow
    /\ now' = now + 1
    /\ UNCHANGED <<anchorVars, hist, concVars, ingestVars, restVars>>

TsCall ==
    /\ Len(hist) < MaxCalls
    /\ \E ts \in RawTimestamps :
         LET r == TsToDatetime(Anchor, ts, now)
         IN  /\ SetAnchor(r.g)
             /\ hist' = Append(hist, [ts |-> ts, cur |-> now, pre |-> Anchor,
                                      post |-> r.g, elapsed |-> r.elapsed,
                                      path |-> r.path, ret |-> r.ret])
    /\ UNCHANGED <<now, concVars, ingestVars, restVars>>

NextTs == Tick \/ TsCall

SpecTs == InitTs /\ [][NextTs]_vars

(***************************************************************************)
(* Concurrent requests: app.run(threaded=True) serves every request on its *)
(* own thread, and ingest_can calls _ts_to_datetime without a lock.  Each  *)
(* step below is one statement of _ts_to_datetime that reads or writes a   *)
(* global; statements on locals are folded into the step before them.      *)
(* A group of overlapping calls starts when a call begins while no other   *)
(* call is running; a thread makes one call per group.                     *)
(***************************************************************************)
ConcTimestamps == { <<0, 2>>, <<0, 50>>, <<0, 100>>, <<0, 105>>, <<946, 684801>> }

AllIdle == \A t \in Threads : thr[t].pc = "idle"

At(t, label) == thr[t].pc = label

Goto(t, label) == thr' = [thr EXCEPT ![t].pc = label]

Return(t, rnd, call) ==
    /\ thr' = [thr EXCEPT ![t] = IdleThread]
    /\ round' = Append(rnd, call)

CallRecord(t, ret) ==
    [thread |-> t, ts |-> thr[t].ts, current_time |-> thr[t].current_time, ret |-> ret]

\* lines 172-195: the absolute branches return at once; a relative call reads the clock
Enter(t) ==
    /\ At(t, "idle")
    /\ AllIdle \/ \A i \in 1..Len(round) : round[i].thread # t
    /\ base' = IF AllIdle THEN Anchor ELSE base
    /\ \E ts \in ConcTimestamps :
         IF IsAbsMs(ts) \/ IsAbsSec(ts)
         THEN Return(t, IF AllIdle THEN <<>> ELSE round,
                     [thread |-> t, ts |-> ts, current_time |-> 0,
                      ret |-> TsToDatetime(Anchor, ts, now).ret])
         ELSE /\ thr' = [thr EXCEPT ![t] = [pc |-> "L197", ts |-> ts, t |-> RelTs(ts),
                                            current_time |-> now, elapsed |-> 0]]
              /\ round' = IF AllIdle THEN <<>> ELSE round
    /\ UNCHANGED <<anchorVars, now, hist, ingestVars, restVars>>

L197(t) ==
    /\ At(t, "L197")
    /\ Goto(t, IF _first_relative THEN "L198" ELSE "L206")
    /\ UNCHANGED <<anchorVars, now, hist, base, round, ingestVars, restVars>>

L198(t) ==
    /\ At(t, "L198")
    /\ _relative_anchor_real' = thr[t].current_time
    /\ Goto(t, "L199")
    /\ UNCHANGED <<_first_relative, _relative_anchor_ts, _last_raw_ts, now, hist, base, round, ingestVars, restVars>>

L199(t) ==
    /\ At(t, "L199")
    /\ _relative_anchor_ts' = thr[t].t
    /\ Goto(t, "L200")
    /\ UNCHANGED <<_first_relative, _relative_anchor_real, _last_raw_ts, now, hist, base, round, ingestVars, restVars>>

L200(t) ==
    /\ At(t, "L200")
    /\ _last_raw_ts' = thr[t].t
    /\ Goto(t, "L201")
    /\ UNCHANGED <<_first_relative, _relative_anchor_ts, _relative_anchor_real, now, hist, base, round, ingestVars, restVars>>

L201(t) ==
    /\ At(t, "L201")
    /\ _first_relative' = FALSE
    /\ Goto(t, "L204")
    /\ UNCHANGED <<_relative_anchor_ts, _relative_anchor_real, _last_raw_ts, now, hist, base, round, ingestVars, restVars>>

\* lines 204, 221, 222: return _relative_anchor_real
ReturnAnchor(t) ==
    /\ At(t, "L204") \/ At(t, "L221") \/ At(t, "L222")
    /\ Return(t, round, CallRecord(t, Wall(_relative_anchor_real)))
    /\ UNCHANGED <<anchorVars, now, hist, base, ingestVars, restVars>>

\* line 206, left operand of "and"
L206(t) ==
    /\ At(t, "L206")
    /\ Goto(t, IF thr[t].t < _last_raw_ts THEN "L206b" ELSE "L211")
    /\ UNCHANGED <<anchorVars, now, hist, base, round, ingestVars, restVars>>

\* line 206, right operand of "and": _last_raw_ts is read again
L206b(t) ==
    /\ At(t, "L206b")
    /\ Goto(t, IF (_last_raw_ts - thr[t].t) > ResetThresholdMs THEN "L208" ELSE "L211")
    /\ UNCHANGED <<anchorVars, now, hist, base, round, ingestVars, restVars>>

L208(t) ==
    /\ At(t, "L208")
    /\ _relative_anchor_real' = thr[t].current_time
    /\ Goto(t, "L209")
    /\ UNCHANGED <<_first_relative, _relative_anchor_ts, _last_raw_ts, now, hist, base, round, ingestVars, restVars>>

L209(t) ==
    /\ At(t, "L209")
    /\ _relative_anchor_ts' = thr[t].t
    /\ Goto(t, "L211")
    /\ UNCHANGED <<_first_relative, _relative_anchor_real, _last_raw_ts, now, hist, base, round, ingestVars, restVars>>

L211(t) ==
    /\ At(t, "L211")
    /\ _last_raw_ts' = thr[t].t
    /\ Goto(t, "L212")
    /\ UNCHANGED <<_first_relative, _relative_anchor_ts, _relative_anchor_real, now, hist, base, round, ingestVars, restVars>>

\* lines 212-216: elapsed_seconds is computed from the global anchor, then tested
L212(t) ==
    /\ At(t, "L212")
    /\ LET elapsed == thr[t].t - _relative_anchor_ts
       IN  thr' = [thr EXCEPT ![t].elapsed = elapsed,
                              ![t].pc = IF elapsed < 0
                                        THEN IF SignificantJump(elapsed) THEN "L217" ELSE "L222"
                                        ELSE "L225"]
    /\ UNCHANGED <<anchorVars, now, hist, base, round, ingestVars, restVars>>

L217(t) ==
    /\ At(t, "L217")
    /\ _relative_anchor_real' = thr[t].current_time
    /\ Goto(t, "L218")
    /\ UNCHANGED <<_first_relative, _relative_anchor_ts, _last_raw_ts, now, hist, base, round, ingestVars, restVars>>

L218(t) ==
    /\ At(t, "L218")
    /\ _relative_anchor_ts' = thr[t].t
    /\ Goto(t, "L221")
    /\ UNCHANGED <<_first_relative, _relative_anchor_real, _last_raw_ts, now, hist, base, round, ingestVars, restVars>>

\* lines 224-225: return _relative_anchor_real + elapsed
L225(t) ==
    /\ At(t, "L225")
    /\ Return(t, round, CallRecord(t, Wall(_relative_anchor_real + thr[t].elapsed)))
    /\ UNCHANGED <<anchorVars, now, hist, base, ingestVars, restVars>>

TickConc ==
    /\ now < MaxNow
    /\ now' = now + 1
    /\ UNCHANGED <<anchorVars, hist, concVars, ingestVars, restVars>>

InitConc ==
    /\ AnchorInit
    /\ now = 0
    /\ hist = <<>>
    /\ ConcIdle
    /\ IngestIdle
    /\ RestIdle

NextConc ==
    \/ TickConc
    \/ \E t \in Threads :
         \/ Enter(t) \/ L197(t) \/ L198(t) \/ L199(t) \/ L200(t) \/ L201(t)
         \/ ReturnAnchor(t) \/ L206(t) \/ L206b(t) \/ L208(t) \/ L209(t)
         \/ L211(t) \/ L212(t) \/ L217(t) \/ L218(t) \/ L225(t)

SpecConc == InitConc /\ [][NextConc]_vars


(***************************************************************************)
(* ingest_can: one /can request at a time.  A JSON value is a record whose *)
(* field k names its shape.                                                *)
(*   id:        none | int (v) | str (v, a decimal or 0x string) | str_bad *)
(*              | list                                                     *)
(*   data:      none | list (v, integers) | list_null (a list holding      *)
(*              null) | str_bad | dict                                     *)
(*   timestamp: none | num (v) | str_bad                                   *)
(* A frame that is not a JSON object has obj = FALSE.                      *)
(***************************************************************************)
MaxFrames == 3

JNone == [k |-> "none", v |-> <<>>]
JInt(n) == [k |-> "int", v |-> <<n>>]
JList(bytes) == [k |-> "list", v |-> bytes]
JNum(ts) == [k |-> "num", v |-> ts]
JBad(kind) == [k |-> kind, v |-> <<>>]

Frame(id, data, timestamp) == [obj |-> TRUE, id |-> id, data |-> data, timestamp |-> timestamp]
NotAnObject == [obj |-> FALSE, id |-> JNone, data |-> JNone, timestamp |-> JNone]

IngestFrames ==
    { NotAnObject,
      Frame(JInt(256), JList(<<10, 1>>), JNum(<<0, 100>>)),
      Frame(JInt(256), JList(<<300>>), JNum(<<0, 2>>)),
      Frame(JInt(256), JList(<<10, 1>>), JNum(<<946, 684801>>)),
      Frame(JInt(999), JList(<<10, 1>>), JNum(<<0, 2>>)),
      Frame(JInt(512), JNone, JNum(<<0, 100>>)),
      Frame(JNone, JList(<<10, 1>>), JNum(<<0, 100>>)),
      Frame(JBad("str_bad"), JList(<<10, 1>>), JNum(<<0, 100>>)),
      Frame(JInt(256), JBad("list_null"), JNum(<<0, 100>>)),
      Frame(JInt(256), JBad("str_bad"), JNum(<<0, 100>>)),
      Frame(JInt(256), JList(<<10, 1>>), JNone) }

RECURSIVE SeqsUpTo(_, _)
SeqsUpTo(S, n) ==
    IF n = 0 THEN { <<>> }
    ELSE LET shorter == SeqsUpTo(S, n - 1)
         IN  shorter \cup { Append(q, x) : q \in { r \in shorter : Len(r) = n - 1 }, x \in S }

\* A string data field is the sequence of its whitespace-separated tokens; a
\* token is an optional minus sign, an optional 0x and its digits.
JStr(tokens) == [k |-> "str", v |-> tokens]

RECURSIVE Digits(_, _)
Digits(n, radix) ==
    IF n < radix THEN <<n>> ELSE Append(Digits(n \div radix, radix), n % radix)

\* str(n) and hex(n): the tokens a sender writes for the integer n
DecToken(n) == [neg |-> n < 0, prefix |-> "", digits |-> Digits(Abs(n), 10)]
HexToken(n) == [neg |-> n < 0, prefix |-> "0x", digits |-> Digits(Abs(n), 16)]

RECURSIVE ValueOf(_, _)
ValueOf(digits, radix) ==
    IF digits = <<>> THEN 0
    ELSE ValueOf(SubSeq(digits, 1, Len(digits) - 1), radix) * radix + digits[Len(digits)]

\* line 123: int(b, 16 if b.lower().startswith("0x") else 10)
ParseInt(token) ==
    IF ~token.neg /\ token.prefix = "0x"
    THEN [exc |-> "", n |-> ValueOf(token.digits, 16)]
    ELSE IF token.prefix = "" /\ \A i \in 1..Len(token.digits) : token.digits[i] < 10
    THEN [exc |-> "", n |-> (IF token.neg THEN -1 ELSE 1) * ValueOf(token.digits, 10)]
    ELSE [exc |-> "ValueError", n |-> 0]

BytesFromField_nomask(data_field) ==
    CASE data_field.k = "list" -> [exc |-> "", bytes |-> data_field.v]
      [] data_field.k = "str" ->
           IF \E i \in 1..Len(data_field.v) : ParseInt(data_field.v[i]).exc # ""
           THEN [exc |-> "ValueError", bytes |-> <<>>]
           ELSE [exc |-> "", bytes |-> [i \in 1..Len(data_field.v) |->
                                          ParseInt(data_field.v[i]).n]]
      [] data_field.k = "none" -> [exc |-> "", bytes |-> <<>>]
      [] data_field.k = "list_null" -> [exc |-> "TypeError", bytes |-> <<>>]
      [] OTHER -> [exc |-> "ValueError", bytes |-> <<>>]

\* _bytes_from_field: the bytes, or the exception raised
BytesFromField(data_field) ==
    CASE data_field.k = "list" ->
           [exc |-> "", bytes |-> [i \in 1..Len(data_field.v) |-> data_field.v[i] % 256]]
      [] data_field.k = "str" ->
           IF \E i \in 1..Len(data_field.v) : ParseInt(data_field.v[i]).exc # ""
           THEN [exc |-> "ValueError", bytes |-> <<>>]
           ELSE [exc |-> "", bytes |-> [i \in 1..Len(data_field.v) |->
                                          ParseInt(data_field.v[i]).n % 256]]
      [] data_field.k = "none" -> [exc |-> "", bytes |-> <<>>]
      [] data_field.k = "list_null" -> [exc |-> "TypeError", bytes |-> <<>>]
      [] OTHER -> [exc |-> "ValueError", bytes |-> <<>>]

\* lines 277-288: the statistics loop catches ValueError only
StatsLoopRaises(frames) ==
    \E i \in 1..Len(frames) :
        \/ ~frames[i].obj
        \/ BytesFromField(frames[i].data).exc = "TypeError"

\* int(s, 0): the radix is taken from the prefix of the string; a decimal
\* string other than zero has no leading zero
RadixOf(prefix) ==
    CASE prefix = "0x" -> 16 [] prefix = "0o" -> 8 [] prefix = "0b" -> 2 [] OTHER -> 10

IntAuto(token) ==
    LET radix == RadixOf(token.prefix)
        n == ValueOf(token.digits, radix)
    IN  IF \/ token.digits = <<>>
           \/ \E i \in 1..Len(token.digits) : token.digits[i] >= radix
           \/ token.prefix = "" /\ Len(token.digits) > 1 /\ token.digits[1] = 0 /\ n # 0
        THEN [exc |-> "ValueError", n |-> 0]
        ELSE [exc |-> "", n |-> IF token.neg THEN -n ELSE n]

\* a JSON number with a fraction is the pair <<whole part, tenths>>
JFloat(whole, tenths) == [k |-> "float", v |-> <<whole, tenths>>]
JBool(b) == [k |-> "bool", v |-> <<b>>]

\* line 320: int(can_id_raw, 0) if isinstance(can_id_raw, str) else int(can_id_raw)
\* int() of a float drops the fraction; int() of a bool is 0 or 1
ParseId(can_id_raw) ==
    CASE can_id_raw.k = "int" -> [exc |-> "", can_id |-> can_id_raw.v[1]]
      [] can_id_raw.k = "str" ->
           IF Len(can_id_raw.v) # 1 THEN [exc |-> "ValueError", can_id |-> 0]
           ELSE [exc |-> IntAuto(can_id_raw.v[1]).exc, can_id |-> IntAuto(can_id_raw.v[1]).n]
      [] can_id_raw.k = "float" -> [exc |-> "", can_id |-> can_id_raw.v[1]]
      [] can_id_raw.k = "bool" -> [exc |-> "", can_id |-> IF can_id_raw.v[1] THEN 1 ELSE 0]
      [] can_id_raw.k = "list" -> [exc |-> "TypeError", can_id |-> 0]
      [] OTHER -> [exc |-> "ValueError", can_id |-> 0]

\* the DBC: 256 is MsgA with the signals speed (byte 0, km/h) and mode (byte 1,
\* enumerated, no unit); 512 is the multiplexed MsgB, whose decode needs byte 0
DbcIds == {256, 512}

MsgName(can_id) == IF can_id = 256 THEN "MsgA" ELSE "MsgB"

\* _get_cached_message: the message, or None for an id the DBC does not hold
GetCachedMessage(can_id) == IF can_id \in DbcIds THEN can_id ELSE 0

\* the unit of a signal for which the DBC records none (None in Python)
NoUnit == ""

\* msg.decode(data, allow_truncated=True, decode_choices=True)
DecodeRaises(msg, data) == msg = 512 /\ Len(data) = 0

Decode(msg, data) ==
    IF msg = 256
    THEN (IF Len(data) >= 1
          THEN << [name |-> "speed", value |-> data[1], label |-> "", unit |-> "km/h"] >>
          ELSE <<>>)
         \o (IF Len(data) >= 2
             THEN << [name |-> "mode", value |-> data[2],
                      label |-> IF data[2] = 1 THEN "ON" ELSE "", unit |-> NoUnit] >>
             ELSE <<>>)
    ELSE << [name |-> "level", value |-> data[1], label |-> "", unit |-> "V"] >>

\* a string of digits with its prefix, padded with zeros to width digits
Padded(prefix, digits, width) ==
    [neg |-> FALSE, prefix |-> prefix,
     digits |-> [i \in 1..(width - Len(digits)) |-> 0] \o digits]

\* line 149: format(can_id, "#04x"): 0x and at least two hexadecimal digits
GetCachedHexId(can_id) ==
    LET digits == Digits(can_id, 16)
    IN  Padded("0x", digits, IF Len(digits) < 2 THEN 2 ELSE Len(digits))

\* raw.name if the value is a named choice, else str(raw)
LabelOf(signal) == IF signal.label # "" THEN signal.label ELSE ToString(signal.value)

\* lines 360-405: one point per decoded signal.  A unit of "" in a decoded
\* signal stands for a signal whose unit is None in the DBC.
PointsOf(idx, can_id, msg, decoded_signals, ts_dt) ==
    [i \in 1..Len(decoded_signals) |->
        [frame |-> idx,
         tags |-> [messageName |-> MsgName(msg),
                   signalName |-> decoded_signals[i].name,
                   canID |-> GetCachedHexId(can_id)],
         fields |-> [sensorReading |-> decoded_signals[i].value,
                     unit |-> IF decoded_signals[i].unit = NoUnit THEN "N/A"
                              ELSE decoded_signals[i].unit,
                     signalLabel |-> LabelOf(decoded_signals[i])],
         time |-> ts_dt]]

Skipped(g, counted, why) == [g |-> g, errors |-> counted, points |-> <<>>, outcome |-> why]

\* lines 344-405: lookup, decode and the points of one frame whose fields parsed
LookupAndDecode(g, idx, can_id, data, ts_dt) ==
    LET msg == GetCachedMessage(can_id)
    IN  IF msg = 0 THEN Skipped(g, 0, "unknown_id")
        ELSE IF DecodeRaises(msg, data) THEN Skipped(g, 1, "decode_error")
        ELSE [g |-> g, errors |-> 0,
              points |-> PointsOf(idx, can_id, msg, Decode(msg, data), ts_dt),
              outcome |-> "decoded"]

\* lines 312-405: one iteration of the frame loop, on the anchor state g
ProcessOneFrame(g, idx, frame, current_time) ==
    IF ~frame.obj THEN Skipped(g, 1, "malformed")
    ELSE IF frame.id.k = "none" THEN Skipped(g, 1, "malformed")
    ELSE IF ParseId(frame.id).exc # "" THEN Skipped(g, 1, "malformed")
    ELSE IF BytesFromField(frame.data).exc # "" THEN Skipped(g, 1, "malformed")
    ELSE IF frame.timestamp.k = "none" THEN Skipped(g, 1, "malformed")
    ELSE IF frame.timestamp.k # "num" THEN Skipped(g, 1, "malformed")
    ELSE LET r == TsToDatetime(g, frame.timestamp.v, current_time)
         IN  LookupAndDecode(r.g, idx, ParseId(frame.id).can_id,
                             BytesFromField(frame.data).bytes, r.ret)

Payloads ==
    { [kind |-> "invalid_json", frames |-> <<>>], [kind |-> "no_list", frames |-> <<>>] }
    \cup { [kind |-> k, frames |-> fs] : k \in {"array", "messages"},
                                        fs \in SeqsUpTo(IngestFrames, MaxFrames) }

\* lines 239-309: parse the body, find the frame list, run the statistics loop
Receive ==
    /\ req.pc = "idle"
    /\ \E payload \in Payloads :
         IF payload.kind \in {"invalid_json", "no_list"}
         THEN /\ req' = [NoRequest EXCEPT !.pc = "done"]
              /\ resp' = [kind |-> "response", code |-> 400, status |-> "error",
                          received_frames |-> 0, written_points |-> 0]
         ELSE IF StatsLoopRaises(payload.frames)
         THEN /\ req' = [NoRequest EXCEPT !.pc = "done", !.frames = payload.frames]
              /\ resp' = [kind |-> "exception"]
         ELSE /\ req' = [NoRequest EXCEPT !.pc = "loop", !.frames = payload.frames, !.idx = 1]
              /\ resp' = NoResponse
    /\ UNCHANGED <<anchorVars, now, hist, concVars, cancel, restVars>>

\* lines 312-405: the next frame of the list
ProcessFrame ==
    /\ req.pc = "loop"
    /\ req.idx <= Len(req.frames)
    /\ LET r == ProcessOneFrame(Anchor, req.idx, req.frames[req.idx], now)
       IN  /\ SetAnchor(r.g)
           /\ req' = [req EXCEPT !.idx = @ + 1,
                                 !.points = @ \o r.points,
                                 !.frame_errors = @ + r.errors,
                                 !.outcome = Append(@, r.outcome)]
    /\ UNCHANGED <<now, hist, concVars, resp, cancel, restVars>>

\* lines 407-435: the summary, the write to InfluxDB and the response
Respond ==
    /\ req.pc = "loop"
    /\ req.idx > Len(req.frames)
    /\ req' = [req EXCEPT !.pc = "done"]
    /\ IF req.points = <<>>
       THEN resp' = [kind |-> "response", code |-> 200, status |-> "no_points_decoded",
                     received_frames |-> Len(req.frames), written_points |-> 0]
       ELSE \E write_ok \in BOOLEAN :
              resp' = IF write_ok
                      THEN [kind |-> "response", code |-> 201, status |-> "ok",
                            received_frames |-> Len(req.frames),
                            written_points |-> Len(req.points)]
                      ELSE [kind |-> "response", code |-> 500, status |-> "error",
                            received_frames |-> Len(req.frames), written_points |-> 0]
    /\ UNCHANGED <<anchorVars, now, hist, concVars, cancel, restVars>>

\* the handler has returned (or raised): its locals and the response are gone
Finish ==
    /\ req.pc = "done"
    /\ req' = NoRequest
    /\ resp' = NoResponse
    /\ cancel' = FALSE
    /\ UNCHANGED <<anchorVars, now, hist, concVars, restVars>>

\* the caller gives up the running request; no statement of ingest_can
\* (lines 309-435) reads a cancellation, so the frame loop is not told
Cancel ==
    /\ req.pc = "loop"
    /\ ~cancel
    /\ cancel' = TRUE
    /\ UNCHANGED <<anchorVars, now, hist, concVars, req, resp, restVars>>

TickIngest ==
    /\ now < MaxNow
    /\ now' = now + 1
    /\ UNCHANGED <<anchorVars, hist, concVars, ingestVars, restVars>>

InitIngest ==
    /\ AnchorInit
    /\ now = 0
    /\ hist = <<>>
    /\ ConcIdle
    /\ IngestIdle
    /\ RestIdle

NextIngest == Receive \/ ProcessFrame \/ Respond \/ Finish \/ TickIngest \/ Cancel

SpecIngest == InitIngest /\ [][NextIngest]_vars

(***************************************************************************)
(* Several sources: every request, whatever its request.remote_addr, has   *)
(* its frames stamped by the one module-level anchor (lines 29-34, 332).   *)
(***************************************************************************)
Sources == {"car_a", "car_b"}

SrcTimestamps == { <<0, 2>>, <<0, 100>>, <<0, 105>> }

\* a frame of a request sent by source s reaches line 332
SrcCall ==
    /\ Len(hist) < MaxCalls
    /\ \E s \in Sources, ts \in SrcTimestamps :
         LET r == TsToDatetime(Anchor, ts, now)
         IN  /\ SetAnchor(r.g)
             /\ hist' = Append(hist, [src |-> s, ts |-> ts, cur |-> now, pre |-> Anchor,
                                      post |-> r.g, elapsed |-> r.elapsed,
                                      path |-> r.path, ret |-> r.ret])
    /\ UNCHANGED <<now, concVars, ingestVars, restVars>>

TickSrc ==
    /\ now < MaxNow
    /\ now' = now + 1
    /\ UNCHANGED <<anchorVars, hist, concVars, ingestVars, restVars>>

InitSrc ==
    /\ AnchorInit
    /\ now = 0
    /\ hist = <<>>
    /\ ConcIdle
    /\ IngestIdle
    /\ RestIdle

NextSrc == SrcCall \/ TickSrc

SpecSrc == InitSrc /\ [][NextSrc]_vars

(***************************************************************************)
(* The file uploader (src/installer/file-uploader): upload_file.worker     *)
(* builds a CANInfluxStreamer, runs stream_to_influx on one asyncio event  *)
(* loop and closes the streamer.  The loop runs one _producer task and the *)
(* _uploader tasks; a task gives way to the others at an await only, and   *)
(* every action below is the code between two awaits.  A point is the      *)
(* number it has in the order the row parser yields the points of the      *)
(* upload.  Delays are in milliseconds.                                    *)
(***************************************************************************)
batch_size == 2
max_queue_size == 1
max_retries == 3
MaxFiles == 2
MaxPoints == 4

Min(a, b) == IF a < b THEN a ELSE b

RECURSIVE Pow2(_)
Pow2(n) == IF n = 0 THEN 1 ELSE 2 * Pow2(n - 1)

\* _calculate_adaptive_delay, with adaptive_backoff = True and rate_limit_delay = 0.01
CalculateAdaptiveDelay(failures) ==
    IF failures = 0 THEN 10
    ELSE Min(10 * Pow2(Min(failures, 10)), 5000)

Sentinel == [sentinel |-> TRUE, points |-> <<>>, rows |-> 0]

QueueHasRoom_always(q) == TRUE

\* queue.qsize() < self.max_queue_size, and the space queue.put waits for
QueueHasRoom(q) == Len(q) < max_queue_size

\* worker, lines 118-154: the content type chooses the stream, or none
StartStream ==
    /\ main.pc = "idle"
    /\ \E content_type \in {"zip", "csv", "other"} :
         IF content_type = "other"
         THEN /\ main' = [main EXCEPT !.pc = "returned"]
              /\ UNCHANGED <<prod, upl>>
         ELSE /\ main' = [main EXCEPT !.pc = "await_producer",
                                      !.is_csv = (content_type = "csv")]
              /\ prod' = [IdleProducer EXCEPT !.pc = "next_file"]
              /\ upl' = [u \in Uploaders |-> [IdleUploader EXCEPT !.pc = "get"]]
    /\ UNCHANGED <<moreVars, listenerVars, cacheVars, pureVars, queue, unfinished, stats, _consecutive_failures,
                   _write_callbacks, puts, writes, reported, sink>>

\* _producer and the head of process_file: the next .csv member, whose name
\* gives the start time or is skipped; a csv upload is one file
NextFile ==
    /\ prod.pc = "next_file"
    /\ \/ /\ prod.file < (IF main.is_csv THEN 1 ELSE MaxFiles)
          /\ \E good_name \in BOOLEAN :
               prod' = [prod EXCEPT !.file = @ + 1, !.batch = <<>>, !.rows_in_batch = 0,
                                    !.pc = IF good_name THEN "points"
                                           ELSE IF main.is_csv THEN "done" ELSE "next_file"]
       \/ /\ ~main.is_csv \/ prod.file = 1
          /\ prod' = [prod EXCEPT !.pc = "done"]
    /\ UNCHANGED <<moreVars, listenerVars, cacheVars, pureVars, main, queue, unfinished, upl, stats, _consecutive_failures,
                   _write_callbacks, puts, writes, reported, sink>>

AfterLastPoint_drop(batch, is_csv) == IF is_csv THEN "done" ELSE "next_file"

\* lines 472-473 and 509-510: if batch: await queue.put((batch, rows_in_batch))
AfterLastPoint(batch, is_csv) ==
    IF batch # <<>> THEN "put_last"
    ELSE IF is_csv THEN "done" ELSE "next_file"

\* process_file, lines 462-465 and 472: the parser yields the next point, or
\* the file ends, or the csv reader raises
NextPoint ==
    /\ prod.pc = "points"
    /\ \/ /\ prod.yielded < MaxPoints
          /\ prod' = [prod EXCEPT !.yielded = @ + 1,
                                  !.batch = Append(@, prod.yielded + 1),
                                  !.rows_in_batch = @ + 1,
                                  !.pc = IF Len(prod.batch) + 1 >= batch_size
                                         THEN "put" ELSE "points"]
       \/ prod' = [prod EXCEPT !.pc = AfterLastPoint(prod.batch, main.is_csv)]
       \/ prod' = [prod EXCEPT !.pc = "raised"]
    /\ UNCHANGED <<moreVars, listenerVars, cacheVars, pureVars, main, queue, unfinished, upl, stats, _consecutive_failures,
                   _write_callbacks, puts, writes, reported, sink>>

\* lines 467-471 and 473: wait for room, then queue.put((batch, rows_in_batch))
Put ==
    /\ prod.pc \in {"put", "put_last"}
    /\ QueueHasRoom(queue)
    /\ queue' = Append(queue, [sentinel |-> FALSE, points |-> prod.batch,
                               rows |-> prod.rows_in_batch])
    /\ puts' = Append(puts, prod.batch)
    /\ unfinished' = unfinished + 1
    /\ prod' = [prod EXCEPT !.batch = <<>>, !.rows_in_batch = 0,
                            !.pc = IF prod.pc = "put" THEN "points"
                                   ELSE IF main.is_csv THEN "done" ELSE "next_file"]
    /\ UNCHANGED <<moreVars, listenerVars, cacheVars, pureVars, main, upl, stats, _consecutive_failures,
                   _write_callbacks, writes, reported, sink>>

\* _uploader, lines 742-752: take an item; the sentinel ends the task
Get(u) ==
    /\ upl[u].pc = "get"
    /\ queue # <<>>
    /\ queue' = Tail(queue)
    /\ IF Head(queue).sentinel
       THEN /\ upl' = [upl EXCEPT ![u] = [IdleUploader EXCEPT !.pc = "exited"]]
            /\ unfinished' = unfinished - 1
       ELSE /\ upl' = [upl EXCEPT ![u] = [pc |-> "write", item |-> Head(queue),
                                          delay |-> CalculateAdaptiveDelay(_consecutive_failures)]]
            /\ UNCHANGED unfinished
    /\ UNCHANGED <<moreVars, listenerVars, cacheVars, pureVars, main, prod, stats, _consecutive_failures,
                   _write_callbacks, puts, writes, reported, sink>>

\* _uploader, lines 754-789: submit the batch, count it, mark the item done
Write(u) ==
    /\ upl[u].pc = "write"
    /\ \E raised \in BOOLEAN :
         /\ writes' = Append(writes, [points |-> upl[u].item.points,
                                      rows |-> upl[u].item.rows,
                                      delay |-> upl[u].delay,
                                      result |-> IF raised THEN "raised" ELSE "pending"])
         /\ _write_callbacks' = _write_callbacks \cup {Len(writes) + 1}
         /\ IF raised
            THEN /\ stats' = [stats EXCEPT !.failed_rows = @ + upl[u].item.rows]
                 /\ _consecutive_failures' = _consecutive_failures + 1
                 /\ UNCHANGED reported
            ELSE /\ stats' = [stats EXCEPT !.processed_rows = @ + upl[u].item.rows,
                                           !.pending_writes = @ + 1]
                 /\ reported' = stats.processed_rows + upl[u].item.rows
                 /\ UNCHANGED _consecutive_failures
    /\ unfinished' = unfinished - 1
    /\ upl' = [upl EXCEPT ![u] = [IdleUploader EXCEPT !.pc = "get"]]
    /\ UNCHANGED <<moreVars, listenerVars, cacheVars, pureVars, main, prod, queue, puts, sink>>

\* _on_write_success and _on_write_error: the sink settles a submitted write
\* while the write API is open; tracked tells whether conf carries a
\* _callback_id still in _write_callbacks
Settle ==
    /\ main.pc \notin {"close_client", "closed"}
    /\ \E i \in 1..Len(writes), ok \in BOOLEAN, tracked \in BOOLEAN :
         /\ writes[i].result = "pending"
         /\ tracked => i \in _write_callbacks
         /\ writes' = [writes EXCEPT ![i].result = IF ok THEN "ok" ELSE "error"]
         /\ _consecutive_failures' = IF ok THEN 0 ELSE _consecutive_failures + 1
         /\ _write_callbacks' = IF tracked THEN _write_callbacks \ {i} ELSE _write_callbacks
         /\ stats' = IF ~ok /\ tracked
                     THEN [stats EXCEPT !.processed_rows = @ - writes[i].rows,
                                        !.failed_rows = @ + writes[i].rows]
                     ELSE stats
    /\ UNCHANGED <<moreVars, listenerVars, cacheVars, pureVars, main, prod, queue, unfinished, upl, puts, reported, sink>>

\* stream_to_influx, line 651: await producer; an exception of the producer
\* leaves stream_to_influx and asyncio.run cancels the uploaders
AwaitProducer ==
    /\ main.pc = "await_producer"
    /\ \/ /\ prod.pc = "done"
          /\ main' = [main EXCEPT !.pc = "join"]
          /\ UNCHANGED upl
       \/ /\ prod.pc = "raised"
          /\ main' = [main EXCEPT !.pc = "raised"]
          /\ upl' = [u \in Uploaders |-> [IdleUploader EXCEPT !.pc = "cancelled"]]
    /\ UNCHANGED <<moreVars, listenerVars, cacheVars, pureVars, prod, queue, unfinished, stats, _consecutive_failures,
                   _write_callbacks, puts, writes, reported, sink>>

\* line 653: await queue.join()
Join ==
    /\ main.pc = "join"
    /\ unfinished = 0
    /\ main' = [main EXCEPT !.pc = "sentinels"]
    /\ UNCHANGED <<moreVars, listenerVars, cacheVars, pureVars, prod, queue, unfinished, upl, stats, _consecutive_failures,
                   _write_callbacks, puts, writes, reported, sink>>

\* lines 655-656: one None for every consumer
PutSentinel ==
    /\ main.pc = "sentinels"
    /\ main.n < Cardinality(Uploaders)
    /\ QueueHasRoom(queue)
    /\ queue' = Append(queue, Sentinel)
    /\ unfinished' = unfinished + 1
    /\ main' = [main EXCEPT !.n = @ + 1]
    /\ UNCHANGED <<moreVars, listenerVars, cacheVars, pureVars, prod, upl, stats, _consecutive_failures,
                   _write_callbacks, puts, writes, reported, sink>>

\* line 657: await asyncio.gather(*consumers)
Gather ==
    /\ main.pc = "sentinels"
    /\ main.n = Cardinality(Uploaders)
    /\ \A u \in Uploaders : upl[u].pc = "exited"
    /\ main' = [main EXCEPT !.pc = "wait_pending"]
    /\ UNCHANGED <<moreVars, listenerVars, cacheVars, pureVars, prod, queue, unfinished, upl, stats, _consecutive_failures,
                   _write_callbacks, puts, writes, reported, sink>>

\* _wait_for_pending_writes: an entry older than 10 s is dropped; the wait ends
\* when no entry is left or after the timeout of 30 s
WaitForPendingWrites ==
    /\ main.pc = "wait_pending"
    /\ \/ /\ \E i \in _write_callbacks :
               _write_callbacks' = _write_callbacks \ {i}
          /\ stats' = [stats EXCEPT !.pending_writes = IF @ > 0 THEN @ - 1 ELSE 0]
          /\ UNCHANGED main
       \/ /\ main' = [main EXCEPT !.pc = "returned"]
          /\ UNCHANGED <<stats, _write_callbacks>>
    /\ UNCHANGED <<moreVars, listenerVars, cacheVars, pureVars, prod, queue, unfinished, upl, _consecutive_failures,
                   puts, writes, reported, sink>>

CloseStep_stop(at, op, next, raises) ==
    /\ main.pc = at
    /\ sink' = Append(sink, [op |-> op, raised |-> raises])
    /\ main' = [main EXCEPT !.pc = IF raises THEN "closed" ELSE next]

\* one call of close() on the sink, which returns or raises; close() goes on
CloseStep(at, op, next, raises) ==
    /\ main.pc = at
    /\ sink' = Append(sink, [op |-> op, raised |-> raises])
    /\ main' = [main EXCEPT !.pc = next]

\* worker, lines 155-164, and close(): the stream has returned or raised
Close ==
    /\ \E raises \in BOOLEAN :
         \/ CloseStep("returned", "write_api.flush", "close_write_api", raises)
         \/ CloseStep("raised", "write_api.flush", "close_write_api", raises)
         \/ CloseStep("close_write_api", "write_api.close", "close_client", raises)
         \/ CloseStep("close_client", "client.close", "closed", raises)
    /\ UNCHANGED <<moreVars, listenerVars, cacheVars, pureVars, prod, queue, unfinished, upl, stats, _consecutive_failures,
                   _write_callbacks, puts, writes, reported>>

ListenerIdle ==
    /\ AnchorInit
    /\ now = 0
    /\ hist = <<>>
    /\ ConcIdle
    /\ IngestIdle

InitStream ==
    /\ ListenerIdle
    /\ RestIdle

NextStream ==
    \/ StartStream \/ NextFile \/ NextPoint \/ Put
    \/ \E u \in Uploaders : Get(u) \/ Write(u)
    \/ Settle \/ AwaitProducer \/ Join \/ PutSentinel \/ Gather
    \/ WaitForPendingWrites \/ Close

SpecStream == InitStream /\ [][NextStream]_vars


(***************************************************************************)
(* The lookup caches of listener.py (lines 46-50) under threaded requests. *)
(* A request is a list of frames; a frame is one CAN id, or a block of n   *)
(* CAN ids that no request used before and the DBC does not hold.  A step   *)
(* is one statement that reads or writes a cache; the label of a position  *)
(* is the line the thread executes next.                                   *)
(***************************************************************************)
MaxRequests == 3

MessageCacheCap == 1000
HexCacheCap == 1000
SignalCacheCap == 5000
CleanupModulus == 100

BlockSizes == {99, 1001, 1100}

OneId(id) == [block |-> FALSE, id |-> id, n |-> 1]
Block(n) == [block |-> TRUE, id |-> 0, n |-> n]

CacheRequests ==
    { <<OneId(256)>>, <<OneId(999)>>, <<OneId(256), OneId(256)>> }
    \cup { <<Block(n)>> : n \in BlockSizes }

\* the signals msg.decode yields for a frame of two bytes
SignalsOf(can_id) == IF can_id = 256 THEN <<"speed", "mode">> ELSE <<"level">>

CAt(t, label) == cth[t].pc = label

CGoto(t, label) == cth' = [cth EXCEPT ![t].pc = label]

CurrentFrame(t) == cth[t].frames[cth[t].idx]

\* line 274: (len(message_cache) + len(can_id_hex_cache)) % 100 == 0
CleanupDue(n_message, n_hex) == (n_message + n_hex) % CleanupModulus = 0

\* lines 239-275: a request with frames arrives; the cleanup runs or not
CacheEnter(t) ==
    /\ CAt(t, "idle")
    /\ nreq < MaxRequests
    /\ nreq' = nreq + 1
    /\ \E frames \in CacheRequests :
         cth' = [cth EXCEPT ![t] =
                   [pc |-> IF CleanupDue(Cardinality(message_cache),
                                         Cardinality(can_id_hex_cache))
                           THEN "L155" ELSE "L133",
                    frames |-> frames, idx |-> 1, sig |-> 0]]
    /\ UNCHANGED <<moreVars, listenerVars, streamVars, pureVars, message_cache, can_id_hex_cache,
                   signal_definition_cache, signal_cache_lock, next_id>>

\* _cleanup_caches_if_needed, line 155
L155(t) ==
    /\ CAt(t, "L155")
    /\ CGoto(t, IF Cardinality(message_cache) > MessageCacheCap THEN "L157" ELSE "L160")
    /\ UNCHANGED <<moreVars, listenerVars, streamVars, pureVars, message_cache, can_id_hex_cache,
                   signal_definition_cache, signal_cache_lock, nreq, next_id>>

L157(t) ==
    /\ CAt(t, "L157")
    /\ message_cache' = {}
    /\ CGoto(t, "L160")
    /\ UNCHANGED <<moreVars, listenerVars, streamVars, pureVars, can_id_hex_cache,
                   signal_definition_cache, signal_cache_lock, nreq, next_id>>

L160(t) ==
    /\ CAt(t, "L160")
    /\ CGoto(t, IF Cardinality(can_id_hex_cache) > HexCacheCap THEN "L162" ELSE "L165")
    /\ UNCHANGED <<moreVars, listenerVars, streamVars, pureVars, message_cache, can_id_hex_cache,
                   signal_definition_cache, signal_cache_lock, nreq, next_id>>

\* lines 162 and 165-168: the hex-id cache is cleared if line 160 said so; the
\* length of the signal cache is read without the lock, its clear holds the lock
L165(t) ==
    /\ cth[t].pc \in {"L162", "L165"}
    /\ can_id_hex_cache' = IF CAt(t, "L162") THEN {} ELSE can_id_hex_cache
    /\ IF Cardinality(signal_definition_cache) > SignalCacheCap
       THEN signal_cache_lock = 0 /\ signal_definition_cache' = {}
       ELSE UNCHANGED signal_definition_cache
    /\ CGoto(t, "L133")
    /\ UNCHANGED <<moreVars, listenerVars, streamVars, pureVars, message_cache, signal_cache_lock, nreq, next_id>>

\* the frame loop moves on to the next frame, or the request is over
NextFrameOf(t) ==
    IF cth[t].idx < Len(cth[t].frames)
    THEN [cth EXCEPT ![t].idx = @ + 1, ![t].pc = "L133", ![t].sig = 0]
    ELSE [cth EXCEPT ![t] = IdleCacheThread]

\* _get_cached_message, line 133 (a block: lines 133-141 for each of its ids,
\* none of which is cached or in the DBC)
L133(t) ==
    /\ CAt(t, "L133")
    /\ IF CurrentFrame(t).block
       THEN /\ message_cache' = message_cache \cup (next_id..(next_id + CurrentFrame(t).n - 1))
            /\ next_id' = next_id + CurrentFrame(t).n
            /\ cth' = NextFrameOf(t)
       ELSE /\ CGoto(t, IF CurrentFrame(t).id \in message_cache THEN "L134" ELSE "L137")
            /\ UNCHANGED <<message_cache, next_id>>
    /\ UNCHANGED <<moreVars, listenerVars, streamVars, pureVars, can_id_hex_cache,
                   signal_definition_cache, signal_cache_lock, nreq>>

\* after the lookup: an unknown id skips the frame, a known one is decoded
AfterLookup(t) ==
    IF CurrentFrame(t).id \in DbcIds
    THEN [cth EXCEPT ![t].pc = "L148"]
    ELSE NextFrameOf(t)

\* line 134: return message_cache[can_id], a KeyError if the key is gone
L134(t) ==
    /\ CAt(t, "L134")
    /\ cth' = IF CurrentFrame(t).id \in message_cache
              THEN AfterLookup(t)
              ELSE [cth EXCEPT ![t].pc = "KeyError"]
    /\ UNCHANGED <<moreVars, listenerVars, streamVars, pureVars, message_cache, can_id_hex_cache,
                   signal_definition_cache, signal_cache_lock, nreq, next_id>>

\* lines 136-141: look the id up in the DBC and cache the message or None
L137(t) ==
    /\ CAt(t, "L137")
    /\ message_cache' = message_cache \cup {CurrentFrame(t).id}
    /\ cth' = AfterLookup(t)
    /\ UNCHANGED <<moreVars, listenerVars, streamVars, pureVars, can_id_hex_cache,
                   signal_definition_cache, signal_cache_lock, nreq, next_id>>

\* _get_cached_hex_id, lines 148-149
L148(t) ==
    /\ CAt(t, "L148")
    /\ can_id_hex_cache' = can_id_hex_cache \cup {CurrentFrame(t).id}
    /\ CGoto(t, "L150")
    /\ UNCHANGED <<moreVars, listenerVars, streamVars, pureVars, message_cache,
                   signal_definition_cache, signal_cache_lock, nreq, next_id>>

\* line 150: return can_id_hex_cache[can_id]
L150(t) ==
    /\ CAt(t, "L150")
    /\ cth' = IF CurrentFrame(t).id \in can_id_hex_cache
              THEN [cth EXCEPT ![t].pc = "L368", ![t].sig = 1]
              ELSE [cth EXCEPT ![t].pc = "KeyError"]
    /\ UNCHANGED <<moreVars, listenerVars, streamVars, pureVars, message_cache, can_id_hex_cache,
                   signal_definition_cache, signal_cache_lock, nreq, next_id>>

CacheKey(t) == <<MsgName(CurrentFrame(t).id), SignalsOf(CurrentFrame(t).id)[cth[t].sig]>>

NextSignalOf(t) ==
    IF cth[t].sig < Len(SignalsOf(CurrentFrame(t).id))
    THEN [cth EXCEPT ![t].sig = @ + 1, ![t].pc = "L368"]
    ELSE NextFrameOf(t)

\* lines 368 and 374: with signal_cache_lock
Acquire(t, at, next) ==
    /\ CAt(t, at)
    /\ signal_cache_lock = 0
    /\ signal_cache_lock' = t
    /\ CGoto(t, next)
    /\ UNCHANGED <<moreVars, listenerVars, streamVars, pureVars, message_cache, can_id_hex_cache,
                   signal_definition_cache, nreq, next_id>>

\* line 369: signal_definition_cache.get(cache_key), and the lock is released
L369(t) ==
    /\ CAt(t, "L369")
    /\ signal_cache_lock' = 0
    /\ cth' = IF CacheKey(t) \in signal_definition_cache
              THEN NextSignalOf(t)
              ELSE [cth EXCEPT ![t].pc = "L374"]
    /\ UNCHANGED <<moreVars, listenerVars, streamVars, pureVars, message_cache, can_id_hex_cache,
                   signal_definition_cache, nreq, next_id>>

\* line 375: signal_definition_cache[cache_key] = ..., and the lock is released
L375(t) ==
    /\ CAt(t, "L375")
    /\ signal_definition_cache' = signal_definition_cache \cup {CacheKey(t)}
    /\ signal_cache_lock' = 0
    /\ cth' = NextSignalOf(t)
    /\ UNCHANGED <<moreVars, listenerVars, streamVars, pureVars, message_cache, can_id_hex_cache, nreq, next_id>>

InitCache ==
    /\ ListenerIdle
    /\ RestIdle

NextCache ==
    \E t \in Threads :
        \/ CacheEnter(t) \/ L155(t) \/ L157(t) \/ L160(t) \/ L165(t)
        \/ L133(t) \/ L134(t) \/ L137(t) \/ L148(t) \/ L150(t)
        \/ Acquire(t, "L368", "L369") \/ L369(t)
        \/ Acquire(t, "L374", "L375") \/ L375(t)

SpecCache == InitCache /\ [][NextCache]_vars


(***************************************************************************)
(* The signal loops.  msg.decode has given the signals of one frame; a     *)
(* signal value is a number (num), a NamedSignalValue (named), an object   *)
(* with value and name whose value is no number (named_bad), or a plain    *)
(* string (str).  A point is the index of its signal.                      *)
(***************************************************************************)
MaxSignals == 3

SignalValueKinds == {"num", "named", "named_bad", "str"}

\* the values each loop cannot turn into a point:
\* listener.py 385-399: float(value) raises, or the type is not handled;
\* helper.py 361-365: float(raw.value) or float(raw) raises;
\* file_processor.py 236: float(raw_value) raises
FailingKinds(by) ==
    IF by = "file_processor" THEN {"named", "named_bad", "str"}
    ELSE {"named_bad", "str"}

\* a loop whose failing signal is skipped with continue
RECURSIVE ContinueOnFailure(_, _, _)
ContinueOnFailure(decoded, i, failing) ==
    IF i > Len(decoded) THEN <<>>
    ELSE (IF decoded[i] \in failing THEN <<>> ELSE <<i>>)
         \o ContinueOnFailure(decoded, i + 1, failing)

\* a generator whose one try block holds the loop: the exception ends it
RECURSIVE ReturnOnFailure(_, _, _)
ReturnOnFailure(decoded, i, failing) ==
    IF i > Len(decoded) THEN <<>>
    ELSE IF decoded[i] \in failing THEN <<>>
    ELSE <<i>> \o ReturnOnFailure(decoded, i + 1, failing)

\* listener.py, lines 363-405
SignalLoop(decoded) == ContinueOnFailure(decoded, 1, FailingKinds("listener"))

\* helper.py, _parse_row_generator, lines 357-382
ParseRowGenerator(decoded) == ReturnOnFailure(decoded, 1, FailingKinds("helper"))

\* file_processor.py, parse_can_csv_row_for_influx, lines 225-254
ParseCanCsvRow(decoded) == ContinueOnFailure(decoded, 1, FailingKinds("file_processor"))

MakePoints ==
    /\ dec.by = "none"
    /\ \E by \in {"listener", "helper", "file_processor"} :
         dec' = [dec EXCEPT !.by = by,
                            !.points = CASE by = "listener" -> SignalLoop(dec.decoded)
                                         [] by = "helper" -> ParseRowGenerator(dec.decoded)
                                         [] OTHER -> ParseCanCsvRow(dec.decoded)]
    /\ UNCHANGED <<moreVars, listenerVars, streamVars, cacheVars, norm>>

InitSignals ==
    /\ ListenerIdle
    /\ StreamCacheIdle
    /\ MoreIdle
    /\ norm = NoField
    /\ \E decoded \in SeqsUpTo(SignalValueKinds, MaxSignals) :
         dec = [NoSignals EXCEPT !.decoded = decoded]

NextSignals == MakePoints

SpecSignals == InitSignals /\ [][NextSignals]_vars


(***************************************************************************)
(* _bytes_from_field on one sequence of integers written in three forms    *)
(***************************************************************************)
MaxBytes == 2

FieldValues == {-5, 0, 10, 255, 300}

Forms == {"list", "decimal", "hex"}

\* the data field a sender writes for the integers values
FieldOf(form, values) ==
    CASE form = "list" -> JList(values)
      [] form = "decimal" -> JStr([i \in 1..Len(values) |-> DecToken(values[i])])
      [] OTHER -> JStr([i \in 1..Len(values) |-> HexToken(values[i])])

Normalize ==
    /\ \E form \in Forms :
         /\ norm.out[form] = NotRun
         /\ norm' = [norm EXCEPT !.out[form] = BytesFromField(FieldOf(form, norm.values))]
    /\ UNCHANGED <<moreVars, listenerVars, streamVars, cacheVars, dec>>

InitBytes ==
    /\ ListenerIdle
    /\ StreamCacheIdle
    /\ MoreIdle
    /\ dec = NoSignals
    /\ \E values \in SeqsUpTo(FieldValues, MaxBytes) :
         norm = [NoField EXCEPT !.values = values]

NextBytes == Normalize

SpecBytes == InitBytes /\ [][NextBytes]_vars


(***************************************************************************)
(* One frame on each ingestion path: the /can handler of listener.py, the  *)
(* uploader's _parse_row_generator (helper.py) and                         *)
(* parse_can_csv_row_for_influx (file_processor.py).  The frame has an id, *)
(* given as a JSON value, and the payload bytes that were supplied; a CSV  *)
(* row holds the id in decimal and eight byte columns, of which those past *)
(* the payload are empty.                                                  *)
(***************************************************************************)
Paths == {"listener", "helper", "file_processor"}

NotIngested == [ran |-> FALSE, outcome |-> "", errors |-> 0, points |-> <<>>]

Ingested(outcome, errors, points) ==
    [ran |-> TRUE, outcome |-> outcome, errors |-> errors, points |-> points]

FrameIds ==
    { JInt(256), JInt(5), JInt(999),
      JStr(<<DecToken(256)>>), JStr(<<HexToken(256)>>),
      JStr(<<[neg |-> FALSE, prefix |-> "0b", digits |-> Digits(256, 2)]>>),
      JStr(<<Padded("", Digits(256, 10), 4)>>),
      JFloat(256, 7), JBool(TRUE), JBad("str_bad"), JBad("list"), JNone }

PayloadLengths == {0, 1, 2, 4, 8}

FramePayloads ==
    { [i \in 1..n |-> IF i = 1 THEN b0 ELSE IF i = 2 THEN b1 ELSE 0] :
        n \in PayloadLengths, b0 \in {10, 200}, b1 \in {0, 1} }

\* the timestamp of the frame: 100 ms on the device clock
FrameTs == <<0, 100>>

EmptyCell == [neg |-> FALSE, prefix |-> "", digits |-> <<>>]

\* the CSV row a logger writes for the frame
RowOf(can_id, payload) ==
    [relative_ms |-> DecToken(ToInt(FrameTs)),
     msg_id |-> DecToken(can_id),
     bytes |-> [i \in 1..8 |-> IF i <= Len(payload) THEN DecToken(payload[i])
                               ELSE EmptyCell]]

\* int(s) of a CSV cell
IntOfCell(cell) ==
    IF cell.digits = <<>> \/ cell.prefix # "" \/ \E i \in 1..Len(cell.digits) : cell.digits[i] > 9
    THEN [exc |-> "ValueError", n |-> 0]
    ELSE [exc |-> "", n |-> (IF cell.neg THEN -1 ELSE 1) * ValueOf(cell.digits, 10)]

\* message.decode(data) without allow_truncated: the data must hold every
\* signal of the message
DecodeStrictRaises(msg, data) == Len(data) < (IF msg = 256 THEN 2 ELSE 1)

\* helper.py 357-379: one point per decoded signal
UploaderPoints(msg_id, msg, decoded, timestamp) ==
    [i \in 1..Len(decoded) |->
        [tags |-> [signalName |-> decoded[i].name,
                   messageName |-> MsgName(msg),
                   canId |-> DecToken(msg_id)],
         fields |-> [sensorReading |-> decoded[i].value,
                     unit |-> decoded[i].unit,
                     description |-> "No description",
                     signalLabel |-> LabelOf(decoded[i])],
         time |-> timestamp]]

\* helper.py 337-382, _parse_row_generator: any exception ends the row
ParseRow(row) ==
    LET byte_values == SelectSeq(row.bytes, LAMBDA b : b.digits # <<>>)
        msg_id == IntOfCell(row.msg_id).n
        data == [i \in 1..Len(byte_values) |-> IntOfCell(byte_values[i]).n]
    IN  IF \/ row.relative_ms.digits = <<>>
           \/ IntOfCell(row.relative_ms).exc # ""
           \/ IntOfCell(row.msg_id).exc # ""
           \/ \E i \in 1..Len(byte_values) : IntOfCell(byte_values[i]).exc # ""
           \/ Len(byte_values) # 8
           \/ msg_id \notin DbcIds
           \/ DecodeStrictRaises(msg_id, data)
        THEN Ingested("returned", 0, <<>>)
        ELSE Ingested("yielded", 0,
                      UploaderPoints(msg_id, msg_id, Decode(msg_id, data),
                                     [clock |-> "start", ms |-> IntOfCell(row.relative_ms).n]))

\* file_processor.py 225-253: one point per decoded signal
ProcessorPoints(can_id_int, msg, decoded, ts_dt) ==
    [i \in 1..Len(decoded) |->
        [tags |-> [signalName |-> decoded[i].name,
                   messageName |-> MsgName(msg),
                   canID |-> DecToken(can_id_int)],
         fields |-> [sensorReading |-> decoded[i].value,
                     unit |-> IF decoded[i].unit = NoUnit THEN "N/A" ELSE decoded[i].unit,
                     signalLabel |-> LabelOf(decoded[i])],
         time |-> ts_dt]]

\* file_processor.py 179-255, parse_can_csv_row_for_influx: the row has the
\* columns message_id, byte0..byte7 and timestamp
ParseRowForInflux(row) ==
    LET can_id_int == IntOfCell(row.msg_id).n
        data == [i \in 1..8 |-> IntOfCell(row.bytes[i]).n]
    IN  IF IntOfCell(row.msg_id).exc # "" THEN Ingested("none", 0, <<>>)
        ELSE IF can_id_int \notin DbcIds THEN Ingested("none", 0, <<>>)
        ELSE IF \E i \in 1..8 : IntOfCell(row.bytes[i]).exc # ""
        THEN Ingested("none", 0, <<>>)
        ELSE IF DecodeRaises(can_id_int, data) THEN Ingested("none", 0, <<>>)
        ELSE Ingested("points", 0,
                      ProcessorPoints(can_id_int, can_id_int, Decode(can_id_int, data),
                                      Epoch(Mul1000(FrameTs))))

\* listener.py 312-405 on a request that holds the one frame
IngestOne ==
    /\ rd.k = "frame"
    /\ ~rd.out["listener"].ran
    /\ LET r == ProcessOneFrame(FreshAnchor, 1, Frame(rd.id, JList(rd.payload), JNum(FrameTs)), 0)
       IN  rd' = [rd EXCEPT !.out["listener"] = Ingested(r.outcome, r.errors, r.points)]
    /\ UNCHANGED exceptFrame

\* the uploader and the file processor read the row of a frame whose id the
\* logger could write as a number
ParseOne ==
    /\ rd.k = "frame"
    /\ rd.id.k = "int"
    /\ \E path \in {"helper", "file_processor"} :
         /\ ~rd.out[path].ran
         /\ rd' = [rd EXCEPT !.out[path] =
                       IF path = "helper" THEN ParseRow(RowOf(rd.id.v[1], rd.payload))
                       ELSE ParseRowForInflux(RowOf(rd.id.v[1], rd.payload))]
    /\ UNCHANGED exceptFrame

InitFrame ==
    /\ ListenerIdle
    /\ StreamCacheIdle
    /\ PureIdle
    /\ LastIdle
    /\ StoreIdle
    /\ FileIdle
    /\ LoadIdle
    /\ GenIdle
    /\ \E id \in FrameIds, payload \in FramePayloads :
         rd = [k |-> "frame", id |-> id, payload |-> payload,
               out |-> [path \in Paths |-> NotIngested]]

NextFrame == IngestOne \/ ParseOne

SpecFrame == InitFrame /\ [][NextFrame]_vars


(***************************************************************************)
(* RunsRepository (data-downloader/backend/storage.py): merge_scanned_runs *)
(* of a scan and update_note of a request, on one runs file.  A payload is *)
(* [updated_at, runs]; runs maps the key of each run to [scan, note,       *)
(* note_updated_at] (the order of the list, which merge sorts by           *)
(* start_utc, is not kept).  An instant is the number of the now_iso()     *)
(* call that returned it; 0 is None.  store.read and store.write are       *)
(* single steps.                                                           *)
(***************************************************************************)
MaxOps == 3

Notes == {"a", "b"}

\* the runs file when the two operations start: some runs, some with notes
StoredRuns ==
    { [updated_at |-> 1, runs |-> [k \in ks |-> IF k \in noted
                                                THEN [scan |-> 0, note |-> "old", note_updated_at |-> 1]
                                                ELSE [scan |-> 0, note |-> "", note_updated_at |-> 0]]] :
        ks \in SUBSET Keys, noted \in SUBSET Keys } 

Started == mrg.n + Cardinality({k \in Keys : last_note[k] # ""}) + (IF upd.pc = "idle" THEN 0 ELSE 1)

\* lines 56-82 with the loop of 71-73 left out
MergeRuns_scanonly(current, scanned, scan, at) ==
    [updated_at |-> at,
     runs |-> [k \in scanned |->
                 [scan |-> scan,
                  note |-> IF k \in DOMAIN current.runs THEN current.runs[k].note ELSE "",
                  note_updated_at |-> IF k \in DOMAIN current.runs
                                      THEN current.runs[k].note_updated_at ELSE 0]]]

\* lines 56-82: the scanned runs with the notes of the stored ones, and the
\* stored runs the scan no longer holds
MergeRuns(current, scanned, scan, at) ==
    [updated_at |-> at,
     runs |-> [k \in scanned \cup DOMAIN current.runs |->
                 IF k \in scanned
                 THEN [scan |-> scan,
                       note |-> IF k \in DOMAIN current.runs THEN current.runs[k].note ELSE "",
                       note_updated_at |-> IF k \in DOMAIN current.runs
                                           THEN current.runs[k].note_updated_at ELSE 0]
                 ELSE current.runs[k]]]

\* lines 117-121: _note_is_newer; None parses to datetime.min
NoteIsNewer(candidate, current) == candidate.note_updated_at > current.note_updated_at

\* lines 102-115: _preserve_concurrent_note_updates
PreserveConcurrentNoteUpdates(payload, latest, baseline_updated_at) ==
    IF latest.updated_at = 0 \/ latest.updated_at = baseline_updated_at THEN payload
    ELSE [payload EXCEPT !.runs =
            [k \in DOMAIN payload.runs |->
               IF k \in DOMAIN latest.runs /\ NoteIsNewer(latest.runs[k], payload.runs[k])
               THEN [payload.runs[k] EXCEPT !.note = latest.runs[k].note,
                                            !.note_updated_at = latest.runs[k].note_updated_at]
               ELSE payload.runs[k]]]

\* lines 55-82: read the store and build the payload
MergeRead ==
    /\ mrg.pc = "idle"
    /\ Started < MaxOps
    /\ \E scanned \in SUBSET Keys :
         mrg' = [mrg EXCEPT !.pc = "preserve", !.n = @ + 1, !.scanned = scanned,
                            !.current = store,
                            !.payload = MergeRuns(store, scanned, mrg.n + 1, clock + 1)]
    /\ clock' = clock + 1
    /\ UNCHANGED <<exceptStore, store, upd, last_note>>

\* line 83: re-read the store and take over the newer notes
MergePreserve ==
    /\ mrg.pc = "preserve"
    /\ mrg' = [mrg EXCEPT !.pc = "write",
                          !.payload = PreserveConcurrentNoteUpdates(mrg.payload, store,
                                                                    mrg.current.updated_at)]
    /\ UNCHANGED <<exceptStore, store, clock, upd, last_note>>

\* lines 84-85: write the payload
MergeWrite ==
    /\ mrg.pc = "write"
    /\ store' = mrg.payload
    /\ mrg' = [mrg EXCEPT !.pc = "idle"]
    /\ UNCHANGED <<exceptStore, clock, upd, last_note>>

\* lines 89-97: read the store and set the note of the run, if it is there
UpdateRead ==
    /\ upd.pc = "idle"
    /\ Started < MaxOps
    /\ \E key \in Keys, note \in Notes :
         /\ last_note[key] = ""
         /\ IF key \in DOMAIN store.runs
            THEN /\ upd' = [pc |-> "write", key |-> key, note |-> note,
                            payload |-> [updated_at |-> clock + 2,
                                         runs |-> [store.runs EXCEPT
                                                     ![key].note = note,
                                                     ![key].note_updated_at = clock + 1]]]
                 /\ clock' = clock + 2
            ELSE /\ upd' = [IdleUpdate EXCEPT !.key = key, !.note = note]
                 /\ clock' = clock
    /\ UNCHANGED <<exceptStore, store, mrg, last_note>>

\* lines 98-100: write the payload and return the run
UpdateWrite ==
    /\ upd.pc = "write"
    /\ store' = upd.payload
    /\ upd' = [upd EXCEPT !.pc = "idle"]
    /\ last_note' = [last_note EXCEPT ![upd.key] = upd.note]
    /\ UNCHANGED <<exceptStore, clock, mrg>>

InitStore ==
    /\ ListenerIdle
    /\ StreamCacheIdle
    /\ PureIdle
    /\ LastIdle
    /\ FrameIdle
    /\ FileIdle
    /\ LoadIdle
    /\ GenIdle
    /\ store \in StoredRuns
    /\ clock = 1
    /\ mrg = IdleMerge
    /\ upd = IdleUpdate
    /\ last_note = [k \in Keys |-> ""]

NextStore == MergeRead \/ MergePreserve \/ MergeWrite \/ UpdateRead \/ UpdateWrite

SpecStore == InitStore /\ [][NextStore]_vars


(***************************************************************************)
(* JSONStore (storage.py 15-42) on one file.  The file name refers to an   *)
(* inode; an inode holds the chunks of one payload that have been written  *)
(* to it so far, and a payload is complete when all of Chunks are there.   *)
(* The web application and the periodic worker are two processes: each has *)
(* its JSONStore object for the file, with its own _lock.  Writer 1 and    *)
(* the reader use the first object, writer 2 the second.  Payload 0 is the *)
(* one on the file at the start; write number n writes payload n.          *)
(***************************************************************************)
MaxWrites == 2

Chunks == {1, 2}

Absent == [payload |-> 0, chunks |-> -1]

\* the JSONStore object each writer calls; the reader calls object 1
StoreOf(w) == w

\* the file opened for writing, where a direct open(self.path, "w") is used
WriteTarget_inplace(current, fresh) == current

\* lines 36-37: the file opened for writing is a new temporary file
WriteTarget(current, fresh) == fresh

\* line 34: with self._lock
WriteAcquire(w) ==
    /\ wr[w].pc = "idle"
    /\ nwrites < MaxWrites
    /\ lock[StoreOf(w)] = 0
    /\ lock' = [lock EXCEPT ![StoreOf(w)] = w]
    /\ nwrites' = nwrites + 1
    /\ wr' = [wr EXCEPT ![w] = [IdleWriter EXCEPT !.pc = "create", !.payload = nwrites + 1]]
    /\ UNCHANGED <<exceptFile, store_path, files, rdr>>

\* line 37: the file is created, or truncated, and is empty
WriteCreate(w) ==
    /\ wr[w].pc = "create"
    /\ LET tmp == WriteTarget(store_path, wr[w].payload)
       IN  /\ files' = [files EXCEPT ![tmp + 1] = [payload |-> wr[w].payload, chunks |-> 0]]
           /\ wr' = [wr EXCEPT ![w].pc = "dump", ![w].tmp = tmp]
    /\ UNCHANGED <<exceptFile, store_path, lock, rdr, nwrites>>

\* lines 38-39: json.dump and flush put the next chunk into the file, or
\* the write fails (disk full) and the exception leaves write()
WriteDump(w) ==
    /\ wr[w].pc = "dump"
    /\ \E raises \in BOOLEAN :
         IF raises
         THEN /\ wr' = [wr EXCEPT ![w] = IdleWriter]
              /\ lock' = [lock EXCEPT ![StoreOf(w)] = 0]
              /\ files' = files
         ELSE /\ files' = [files EXCEPT ![wr[w].tmp + 1].chunks = @ + 1]
              /\ wr' = [wr EXCEPT ![w].written = @ + 1,
                                  ![w].pc = IF wr[w].written + 1 = Cardinality(Chunks)
                                            THEN "replace" ELSE "dump"]
              /\ lock' = lock
    /\ UNCHANGED <<exceptFile, store_path, rdr, nwrites>>

\* lines 40-42: chmod, then rename the temporary file onto the path; the
\* lock is released on leaving write()
WriteReplace(w) ==
    /\ wr[w].pc = "replace"
    /\ store_path' = wr[w].tmp
    /\ wr' = [wr EXCEPT ![w] = IdleWriter]
    /\ lock' = [lock EXCEPT ![StoreOf(w)] = 0]
    /\ rdr' = IF rdr.pc = "load" /\ rdr.ino # wr[w].tmp
              THEN [rdr EXCEPT !.replaced = TRUE] ELSE rdr
    /\ UNCHANGED <<exceptFile, files, nwrites>>

\* lines 27-29: with self._lock, open the path for reading
ReadOpen ==
    /\ rdr.pc \in {"idle", "done"}
    /\ lock[1] = 0
    /\ lock' = [lock EXCEPT ![1] = 3]
    /\ rdr' = [pc |-> "load", ino |-> store_path, got |-> <<>>, replaced |-> FALSE]
    /\ UNCHANGED <<exceptFile, store_path, files, wr, nwrites>>

\* line 30: json.load reads the open file up to its end, then the lock is
\* released
ReadLoad ==
    /\ rdr.pc = "load"
    /\ IF Len(rdr.got) < files[rdr.ino + 1].chunks
       THEN /\ rdr' = [rdr EXCEPT !.got = Append(@, files[rdr.ino + 1].payload)]
            /\ lock' = lock
       ELSE /\ rdr' = [rdr EXCEPT !.pc = "done"]
            /\ lock' = [lock EXCEPT ![1] = 0]
    /\ UNCHANGED <<exceptFile, store_path, files, wr, nwrites>>

InitJsonStore ==
    /\ ListenerIdle
    /\ StreamCacheIdle
    /\ PureIdle
    /\ LastIdle
    /\ FrameIdle
    /\ StoreIdle
    /\ LoadIdle
    /\ GenIdle
    /\ store_path = 0
    /\ files = [i \in 1..(MaxWrites + 1) |->
                  IF i = 1 THEN [payload |-> 0, chunks |-> Cardinality(Chunks)] ELSE Absent]
    /\ lock = <<0, 0>>
    /\ wr = [w \in Writers |-> IdleWriter]
    /\ rdr = IdleReader
    /\ nwrites = 0

NextJsonStore ==
    \/ \E w \in Writers : WriteAcquire(w) \/ WriteCreate(w) \/ WriteDump(w) \/ WriteReplace(w)
    \/ ReadOpen \/ ReadLoad

SpecJsonStore == InitJsonStore /\ [][NextJsonStore]_vars


(***************************************************************************)
(* The startup data loader (startup-data-loader/load_data.py) on one CSV   *)
(* file that does not change.  A row is "valid" if _parse_row makes lines  *)
(* of it, and "invalid" otherwise (the header, an unknown id, a malformed  *)
(* row); a valid row makes one line.  The loader is a process: stopping it *)
(* loses its memory, and with it what its batching write_api still holds.  *)
(* batch_size and save_interval, both 1000 in the code, are scaled down.   *)
(***************************************************************************)
MaxRows == 3
MaxRuns == 3
load_batch_size == 1
save_interval == 2

RowKinds == {"valid", "invalid"}

\* lines 143-150: get_file_offset, for a file whose hash has not changed
GetFileOffset(progress) ==
    IF progress.exists /\ ~progress.completed THEN progress.processed_rows ELSE 0

\* lines 117-124: save
Save(processed_rows, completed) ==
    [exists |-> TRUE, processed_rows |-> processed_rows, completed |-> completed]

\* the rows of the batch, each with the run that writes it
Tagged(batch_lines) == { <<batch_lines[i], runs>> : i \in 1..Len(batch_lines) }

RowsOf(batch_lines) == { batch_lines[i] : i \in 1..Len(batch_lines) }

\* lines 319-354 (and 422-441): load the progress state and open the file,
\* unless the state says the file was completed
StartLoad ==
    /\ ld.pc = "stopped"
    /\ runs < MaxRuns
    /\ ~progress_file.completed
    /\ runs' = runs + 1
    /\ ld' = [pc |-> "loop", resume_offset |-> GetFileOffset(progress_file),
              current_row |-> 0, pos |-> 1, batch_lines |-> <<>>,
              processed_rows |-> IF progress_file.exists THEN progress_file.processed_rows
                                 ELSE 0]
    /\ UNCHANGED <<exceptLoad, rows, progress_file, buffered, influx, written>>

\* lines 357-384: one row of the reader; write_api.write may raise, and then
\* load_startup_data saves the progress and gives the file up (lines 506-510)
NextRow ==
    /\ ld.pc = "loop"
    /\ ld.pos <= Len(rows)
    /\ IF ld.current_row < ld.resume_offset
       THEN /\ ld' = [ld EXCEPT !.current_row = @ + 1, !.pos = @ + 1]
            /\ UNCHANGED <<progress_file, buffered, written>>
       ELSE IF rows[ld.pos] = "invalid"
       THEN /\ ld' = [ld EXCEPT !.pos = @ + 1]
            /\ UNCHANGED <<progress_file, buffered, written>>
       ELSE LET batch_lines == Append(ld.batch_lines, ld.pos)
                current_row == ld.current_row + 1
            IN  IF Len(batch_lines) < load_batch_size
                THEN /\ ld' = [ld EXCEPT !.pos = @ + 1, !.current_row = current_row,
                                         !.batch_lines = batch_lines]
                     /\ UNCHANGED <<progress_file, buffered, written>>
                ELSE \E raises \in BOOLEAN :
                       IF raises
                       THEN /\ ld' = StoppedLoader
                            /\ progress_file' = Save(ld.processed_rows, FALSE)
                            /\ UNCHANGED <<buffered, written>>
                       ELSE /\ buffered' = buffered \cup RowsOf(batch_lines)
                            /\ written' = written \cup Tagged(batch_lines)
                            /\ ld' = [ld EXCEPT !.pos = @ + 1, !.current_row = current_row,
                                                !.batch_lines = <<>>,
                                                !.processed_rows = current_row]
                            /\ progress_file' = IF current_row % save_interval = 0
                                                THEN Save(current_row, FALSE)
                                                ELSE progress_file
    /\ UNCHANGED <<exceptLoad, rows, influx, runs>>

\* lines 386-397: the remaining batch, then the file is marked completed
FinishLoad ==
    /\ ld.pc = "loop"
    /\ ld.pos > Len(rows)
    /\ \E raises \in BOOLEAN :
         IF raises /\ ld.batch_lines # <<>>
         THEN /\ ld' = StoppedLoader
              /\ progress_file' = Save(ld.processed_rows, FALSE)
              /\ UNCHANGED <<buffered, written>>
         ELSE /\ buffered' = buffered \cup RowsOf(ld.batch_lines)
              /\ written' = written \cup Tagged(ld.batch_lines)
              /\ ld' = [ld EXCEPT !.pc = "done", !.batch_lines = <<>>,
                                  !.processed_rows = IF ld.batch_lines # <<>>
                                                     THEN ld.current_row ELSE @]
              /\ progress_file' = Save(IF ld.batch_lines # <<>> THEN ld.current_row
                                       ELSE ld.processed_rows, TRUE)
    /\ UNCHANGED <<exceptLoad, rows, influx, runs>>

\* lines 227-234: the write_api batches (batch_size=50000,
\* flush_interval=10_000): what write() was given is sent later, in the
\* background
FlushBatch ==
    /\ buffered # {}
    /\ influx' = influx \cup buffered
    /\ buffered' = {}
    /\ UNCHANGED <<exceptLoad, rows, ld, progress_file, written, runs>>

\* the loader process is stopped (SIGTERM, a crash, power loss) while it
\* streams the file: its memory is gone, the progress file stays
Interrupt ==
    /\ ld.pc = "loop"
    /\ ld' = StoppedLoader
    /\ buffered' = {}
    /\ UNCHANGED <<exceptLoad, rows, progress_file, influx, written, runs>>

InitLoad ==
    /\ ListenerIdle
    /\ StreamCacheIdle
    /\ PureIdle
    /\ LastIdle
    /\ FrameIdle
    /\ StoreIdle
    /\ FileIdle
    /\ GenIdle
    /\ rows \in SeqsUpTo(RowKinds, MaxRows)
    /\ ld = StoppedLoader
    /\ progress_file = NoProgress
    /\ buffered = {}
    /\ influx = {}
    /\ written = {}
    /\ runs = 0

NextLoad == StartLoad \/ NextRow \/ FinishLoad \/ FlushBatch \/ Interrupt

SpecLoad == InitLoad /\ [][NextLoad]_vars


(***************************************************************************)
(* generate_code (sandbox/code_generator.py 181-279): one request to       *)
(* /api/generate-code.  MAX_RETRIES is read from the environment when the  *)
(* module is imported (line 33, default 2).  A cycle is one call of        *)
(* request_python_code followed by one call of submit_code_to_sandbox; its *)
(* outcome is "ok", a failed execution ("error": the code failed,          *)
(* "unreachable": the sandbox could not be reached, return code -1), or    *)
(* "raises": an exception leaves the cycle (the Cohere call fails).        *)
(***************************************************************************)
MaxRetries == 3

CycleOutcomes == {"ok", "error", "unreachable", "raises"}

\* line 223 with <= in place of <
RetriesLeft_offbyone(attempt, limit) == attempt <= limit

\* line 223: if attempt < MAX_RETRIES
RetriesLeft(attempt, limit) == attempt < limit

\* lines 184-195: the body is parsed and the prompt checked
GenReceive ==
    /\ gen.pc = "idle"
    /\ gen.results = <<>>
    /\ \E limit \in 0..MaxRetries, body \in {"prompt", "empty_prompt", "no_object"} :
         gen' = CASE body = "prompt" -> [NoCall EXCEPT !.pc = "loop", !.MAX_RETRIES = limit]
                  [] body = "empty_prompt" ->
                       [NoCall EXCEPT !.pc = "done", !.MAX_RETRIES = limit,
                                      !.response = [code |-> 400]]
                  [] OTHER ->
                       [NoCall EXCEPT !.pc = "done", !.MAX_RETRIES = limit,
                                      !.response = [code |-> 500]]
    /\ UNCHANGED exceptGen

\* lines 198-262: one pass of the loop `for attempt in range(MAX_RETRIES + 1)`.
\* Were the loop to run out without a return, the view would return None,
\* which Flask answers with an error.
GenAttempt ==
    /\ gen.pc = "loop"
    /\ gen.attempt <= gen.MAX_RETRIES
    /\ \E outcome \in CycleOutcomes :
         LET results == Append(gen.results, outcome)
         IN  gen' =
               CASE outcome = "raises" ->
                      [gen EXCEPT !.pc = "done", !.results = results, !.response = [code |-> 500]]
                 [] outcome = "ok" ->
                      [gen EXCEPT !.pc = "done", !.results = results,
                                  !.response = [code |-> 200, status |-> "success",
                                                retries |-> gen.retry_info,
                                                max_retries_reached |-> FALSE]]
                 [] OTHER ->
                      IF RetriesLeft(gen.attempt, gen.MAX_RETRIES)
                      THEN [gen EXCEPT !.results = results, !.attempt = @ + 1,
                                       !.retry_info = Append(@, [attempt |-> gen.attempt + 1,
                                                                 error |-> outcome]),
                                       !.pc = IF gen.attempt + 1 > gen.MAX_RETRIES
                                              THEN "done" ELSE "loop",
                                       !.response = IF gen.attempt + 1 > gen.MAX_RETRIES
                                                    THEN [code |-> 500] ELSE @]
                      ELSE [gen EXCEPT !.pc = "done", !.results = results,
                                       !.response = [code |-> 200, status |-> "error",
                                                     retries |-> gen.retry_info,
                                                     max_retries_reached |-> TRUE]]
    /\ UNCHANGED exceptGen

InitGen ==
    /\ ListenerIdle
    /\ StreamCacheIdle
    /\ PureIdle
    /\ LastIdle
    /\ FrameIdle
    /\ StoreIdle
    /\ FileIdle
    /\ LoadIdle
    /\ gen = NoCall

NextGen == GenReceive \/ GenAttempt

SpecGen == InitGen /\ [][NextGen]_vars


(***************************************************************************)
(* Everything outside the specifications below stays as it was built.      *)
(***************************************************************************)
BaseIdle ==
    /\ ListenerIdle
    /\ StreamCacheIdle
    /\ PureIdle
    /\ FrameIdle
    /\ StoreIdle
    /\ FileIdle
    /\ LoadIdle
    /\ GenIdle


(***************************************************************************)
(* load_startup_data (startup-data-loader/load_data.py 420-530) over the   *)
(* CSV files of the data directory, run after run.  The content of a file  *)
(* is its two ends (the first and the last 64 KB) and its middle; between  *)
(* two runs of the loader a file may be replaced under the same path.      *)
(* stream_csv is taken as one step that either reaches the end of the file *)
(* or raises.                                                              *)
(***************************************************************************)
MaxLoads == 3

CsvFiles == <<"a.csv", "b.csv">>

CsvPaths == { CsvFiles[i] : i \in 1..Len(CsvFiles) }

Contents == [ends : {1, 2}, middle : {1, 2}]

\* lines 153-166: compute_file_hash digests the first and the last 64 KB
ComputeFileHash(content) == content.ends

\* lines 130-141: should_process_file
ShouldProcessFile(state, file_path, file_hash) ==
    IF file_path \in state.completed_files
    THEN FALSE
    ELSE IF /\ file_path \in DOMAIN state.file_progress
            /\ state.file_progress[file_path].file_hash = file_hash
            /\ state.file_progress[file_path].completed
    THEN FALSE
    ELSE TRUE

\* lines 325-334: the FileProgress of the path is created if there is none
WithFileProgress(file_progress, csv_path, file_hash) ==
    IF csv_path \in DOMAIN file_progress
    THEN file_progress
    ELSE [q \in DOMAIN file_progress \cup {csv_path} |->
            IF q = csv_path THEN [file_hash |-> file_hash, completed |-> FALSE]
            ELSE file_progress[q]]

\* lines 429, 447-461: the progress state is loaded and the files filtered
ScanStart ==
    /\ sk.pc = "stopped"
    /\ loads < MaxLoads
    /\ loads' = loads + 1
    /\ LET process(q) == ShouldProcessFile(progress_state, q, ComputeFileHash(disk[q]))
       IN  /\ sk' = [pc |-> "files", files_to_process |-> SelectSeq(CsvFiles, process)]
           /\ skipped' = skipped \cup { <<q, ComputeFileHash(disk[q])>> :
                                        q \in { r \in CsvPaths : ~process(r) } }
    /\ UNCHANGED <<exceptSkip, disk, progress_state, completed_with>>

\* lines 488-510 with stream_csv (318-409): the next file is streamed; at
\* its end it is marked completed and the state saved (397-401); when
\* stream_csv raises, the state is saved as it is (506-510)
StreamCsv ==
    /\ sk.pc = "files"
    /\ sk.files_to_process # <<>>
    /\ LET csv_path == Head(sk.files_to_process)
           file_hash == ComputeFileHash(disk[csv_path])
           file_progress == WithFileProgress(progress_state.file_progress, csv_path, file_hash)
       IN  \E raises \in BOOLEAN :
             IF raises
             THEN /\ progress_state' = [progress_state EXCEPT !.file_progress = file_progress]
                  /\ UNCHANGED completed_with
             ELSE /\ progress_state' =
                       [completed_files |-> progress_state.completed_files \cup {csv_path},
                        file_progress |-> [file_progress EXCEPT ![csv_path].completed = TRUE]]
                  /\ completed_with' = completed_with \cup {<<csv_path, file_hash>>}
    /\ sk' = [sk EXCEPT !.files_to_process = Tail(@)]
    /\ UNCHANGED <<exceptSkip, disk, skipped, loads>>

\* lines 459-461, 511-526: nothing is left to process and the loader ends
ScanEnd ==
    /\ sk.pc = "files"
    /\ sk.files_to_process = <<>>
    /\ sk' = StoppedScan
    /\ UNCHANGED <<exceptSkip, disk, progress_state, completed_with, skipped, loads>>

\* between two runs of the loader a file of the data directory is replaced
ReplaceFile ==
    /\ sk.pc = "stopped"
    /\ \E q \in CsvPaths, content \in Contents :
         /\ content # disk[q]
         /\ disk' = [disk EXCEPT ![q] = content]
    /\ UNCHANGED <<exceptSkip, progress_state, sk, completed_with, skipped, loads>>

InitSkip ==
    /\ BaseIdle
    /\ PostIdle
    /\ ZipIdle
    /\ SlackIdle
    /\ ScanIdle
    /\ disk \in [CsvPaths -> Contents]
    /\ progress_state = NoProgressState
    /\ sk = StoppedScan
    /\ completed_with = {}
    /\ skipped = {}
    /\ loads = 0

NextSkip == ScanStart \/ StreamCsv \/ ScanEnd \/ ReplaceFile

SpecSkip == InitSkip /\ [][NextSkip]_vars


(***************************************************************************)
(* The upload page of the file uploader (file-uploader/app.py).  The       *)
(* server handles requests in threads and upload_file starts one daemon    *)
(* thread per accepted file (line 165), so the handlers of POST /upload,   *)
(* the generators of GET /progress/<task_id> and the workers interleave    *)
(* at every access of the module globals CURRENT_FILE and PROGRESS.  A     *)
(* file is Batches batches long, a batch counting as one row; a task id is *)
(* the number of the task.  total is the row count the streamer reports:   *)
(* the number of rows, or an estimate from a sample of the file (helper.py *)
(* 221-260, stream_file_auto asks for one below 1000 MB) that may fall     *)
(* short of it.                                                            *)
(***************************************************************************)
MaxPosts == 3
Batches == 2

Totals == {1, Batches}

Tasks == DOMAIN PROGRESS

\* app.py 101-116: on_progress as the worker's thread runs it
OnProgress(state, sent, total) ==
    [state EXCEPT !.sent = sent, !.total = total,
                  !.done = IF sent >= total /\ ~state.done THEN TRUE ELSE @]

\* app.py 72-80: the handler tests CURRENT_FILE["task_id"] and refuses the
\* file with a 400 when it is set
UploadCheck(r) ==
    /\ hnd[r] = "idle"
    /\ nposts < MaxPosts
    /\ nposts' = nposts + 1
    /\ hnd' = [hnd EXCEPT ![r] = IF CURRENT_FILE # 0 THEN "idle" ELSE "accepted"]
    /\ UNCHANGED <<exceptPost, CURRENT_FILE, PROGRESS, wkr>>

\* app.py 81-99 and 165-166: the file is read, the task recorded in PROGRESS
\* and CURRENT_FILE, and the worker thread started
UploadStart(r) ==
    /\ hnd[r] = "accepted"
    /\ LET task_id == Len(PROGRESS) + 1
       IN  /\ PROGRESS' = Append(PROGRESS, [sent |-> 0, total |-> 0, done |-> FALSE])
           /\ CURRENT_FILE' = task_id
           /\ \E total \in Totals :
                wkr' = Append(wkr, [pc |-> "streaming", sent |-> 0, total |-> total])
    /\ hnd' = [hnd EXCEPT ![r] = "idle"]
    /\ UNCHANGED <<exceptPost, nposts>>

\* helper.py 776-780: an _uploader of the worker has submitted a batch and
\* reports on_progress(processed_rows, total_rows)
WorkerBatch(t) ==
    /\ wkr[t].pc = "streaming"
    /\ wkr[t].sent < Batches
    /\ wkr' = [wkr EXCEPT ![t].sent = @ + 1]
    /\ PROGRESS' = [PROGRESS EXCEPT ![t] = OnProgress(@, wkr[t].sent + 1, wkr[t].total)]
    /\ UNCHANGED <<exceptPost, CURRENT_FILE, hnd, nposts>>

\* app.py 118-155: stream_file_auto returns once every batch is submitted
\* and the pending writes are settled, or it raises and the handler of the
\* worker marks the task done
WorkerReturn(t) ==
    /\ wkr[t].pc = "streaming"
    /\ \E raises \in BOOLEAN :
         IF raises
         THEN PROGRESS' = [PROGRESS EXCEPT ![t].done = TRUE]
         ELSE /\ wkr[t].sent = Batches
              /\ UNCHANGED PROGRESS
    /\ wkr' = [wkr EXCEPT ![t].pc = "closing"]
    /\ UNCHANGED <<exceptPost, CURRENT_FILE, hnd, nposts>>

\* app.py 156-161: streamer.close() in the finally of the worker, which ends
WorkerClose(t) ==
    /\ wkr[t].pc = "closing"
    /\ wkr' = [wkr EXCEPT ![t].pc = "ended"]
    /\ UNCHANGED <<exceptPost, CURRENT_FILE, PROGRESS, hnd, nposts>>

\* app.py 177-195: one pass of the loop of a /progress/<task_id> generator
\* that finds its task done: it resets CURRENT_FILE
ProgressDone(t) ==
    /\ PROGRESS[t].done
    /\ CURRENT_FILE # 0
    /\ CURRENT_FILE' = 0
    /\ UNCHANGED <<exceptPost, PROGRESS, hnd, wkr, nposts>>

InitPost ==
    /\ BaseIdle
    /\ SkipIdle
    /\ ZipIdle
    /\ SlackIdle
    /\ ScanIdle
    /\ CURRENT_FILE = 0
    /\ PROGRESS = <<>>
    /\ hnd = [r \in Handlers |-> "idle"]
    /\ wkr = <<>>
    /\ nposts = 0

NextPost ==
    \/ \E r \in Handlers : UploadCheck(r) \/ UploadStart(r)
    \/ \E t \in Tasks : WorkerBatch(t) \/ WorkerReturn(t) \/ WorkerClose(t) \/ ProgressDone(t)

SpecPost == InitPost /\ [][NextPost]_vars


(***************************************************************************)
(* ZipFileHandler.on_created (data-ingest/file_processor.py 334-425).  The *)
(* observer delivers the events of INGEST_DIR to the handler one at a      *)
(* time.  A path is its stem, its extension and whether its base name      *)
(* starts with a dot.  The temporary cleaned CSV of a handling has its own *)
(* name (a timestamp suffix); it is absent ("none"), holds the header only *)
(* ("header") or holds data lines ("data").                                *)
(***************************************************************************)
MaxEvents == 3

EventPaths == { [stem |-> "a", ext |-> ".zip", dot |-> FALSE],
                [stem |-> "b", ext |-> ".zip", dot |-> FALSE],
                [stem |-> "a", ext |-> ".zip", dot |-> TRUE],
                [stem |-> "a", ext |-> ".csv", dot |-> FALSE] }

\* lines 65-160: clean_zip_csv returns True or False, never raises, and has
\* or has not created its output; line 368 finds data lines in it or not
CleanOutcomes == [ok : BOOLEAN, temp : {"none", "header", "data"}]
                     \ {[ok |-> FALSE, temp |-> "data"]}

\* lines 258-316: upload_to_influxdb returns True or False, or the close()
\* of its finally raises
UploadOutcomes == {"ok", "failed", "raised"}

MoveOriginalToProcessed_cleaned(cleaning_ok, temp, upload) == cleaning_ok

\* lines 363-394: move_original_to_processed when the try block is left
MoveOriginalToProcessed(cleaning_ok, temp, upload) ==
    IF cleaning_ok
    THEN IF temp = "data" THEN upload = "ok" ELSE TRUE
    ELSE FALSE

\* lines 400-408: the first free name in PROCESSED_DIR
DestPath(src_path) ==
    [name |-> src_path,
     counter |-> Cardinality({ i \in 1..Len(processed) : processed[i].name = src_path })]

\* lines 334-351: a file is created in INGEST_DIR; directories, paths under
\* way, other extensions and dot files are left alone
OnCreated ==
    /\ zh.pc \in {"idle", "handled"}
    /\ nevents < MaxEvents
    /\ nevents' = nevents + 1
    /\ \E src_path \in EventPaths, is_directory \in BOOLEAN :
         /\ ingest' = ingest \cup {src_path}
         /\ IF \/ is_directory
               \/ src_path \in processing_files
               \/ src_path.ext # ".zip"
               \/ src_path.dot
            THEN /\ zh' = IdleHandler
                 /\ UNCHANGED processing_files
            ELSE /\ zh' = [IdleHandler EXCEPT !.pc = "clean", !.src_path = src_path]
                 /\ processing_files' = processing_files \cup {src_path}
    /\ temp_csv' = "none"
    /\ UNCHANGED <<exceptZip, processed>>

\* lines 363-394: clean_zip_csv and the branches that need no upload
CleanZipCsv ==
    /\ zh.pc = "clean"
    /\ \E outcome \in CleanOutcomes :
         /\ temp_csv' = outcome.temp
         /\ zh' = [zh EXCEPT
                     !.cleaning_ok = outcome.ok,
                     !.pc = IF outcome.ok /\ outcome.temp = "data" THEN "upload" ELSE "move",
                     !.move_original_to_processed =
                         /\ outcome.temp # "data"
                         /\ MoveOriginalToProcessed(outcome.ok, outcome.temp, "none")]
    /\ UNCHANGED <<exceptZip, ingest, processed, processing_files, nevents>>

\* lines 371-381 and 393-394: upload_to_influxdb; an exception is logged
UploadToInfluxdb ==
    /\ zh.pc = "upload"
    /\ \E result \in UploadOutcomes :
         zh' = [zh EXCEPT !.upload = result, !.pc = "move",
                          !.move_original_to_processed =
                              MoveOriginalToProcessed(zh.cleaning_ok, temp_csv, result)]
    /\ UNCHANGED <<exceptZip, ingest, processed, temp_csv, processing_files, nevents>>

\* lines 396-414: the zip is moved if the flag is set; a failing move is
\* logged
MoveOriginal ==
    /\ zh.pc = "move"
    /\ \E raises \in BOOLEAN :
         IF zh.move_original_to_processed /\ ~raises
         THEN /\ ingest' = ingest \ {zh.src_path}
              /\ processed' = Append(processed, DestPath(zh.src_path))
         ELSE UNCHANGED <<ingest, processed>>
    /\ zh' = [zh EXCEPT !.pc = "remove"]
    /\ UNCHANGED <<exceptZip, temp_csv, processing_files, nevents>>

\* lines 416-422: the temporary CSV is removed if it exists; an OSError of
\* os.remove is logged
RemoveTemp ==
    /\ zh.pc = "remove"
    /\ \E raises \in BOOLEAN :
         IF temp_csv # "none" /\ ~raises
         THEN /\ temp_csv' = "none"
              /\ zh' = [zh EXCEPT !.pc = "forget"]
         ELSE /\ UNCHANGED temp_csv
              /\ zh' = [zh EXCEPT !.pc = "forget", !.remove_raised = (temp_csv # "none")]
    /\ UNCHANGED <<exceptZip, ingest, processed, processing_files, nevents>>

\* lines 424-425: the path leaves processing_files and on_created returns
ForgetPath ==
    /\ zh.pc = "forget"
    /\ processing_files' = processing_files \ {zh.src_path}
    /\ zh' = [zh EXCEPT !.pc = "handled"]
    /\ UNCHANGED <<exceptZip, ingest, processed, temp_csv, nevents>>

InitZip ==
    /\ BaseIdle
    /\ SkipIdle
    /\ PostIdle
    /\ SlackIdle
    /\ ScanIdle
    /\ ingest = {}
    /\ processed = <<>>
    /\ temp_csv = "none"
    /\ processing_files = {}
    /\ zh = IdleHandler
    /\ nevents = 0

NextZip == OnCreated \/ CleanZipCsv \/ UploadToInfluxdb \/ MoveOriginal \/ RemoveTemp \/ ForgetPath

SpecZip == InitZip /\ [][NextZip]_vars


(***************************************************************************)
(* process_events of the Slack bot (installer/slackbot/slack_bot.py        *)
(* 648-715; slackbot/slack_bot.py 616-673 is the same but for the bot's    *)
(* user id).  Slack delivers the events of messages in any order and may   *)
(* deliver one again.  A message ts is a number (the ts strings of Slack   *)
(* have one width, so sorted() orders them as numbers); the limit of 1000  *)
(* remembered ts is scaled down.                                           *)
(***************************************************************************)
MaxTs == 4
MaxDeliveries == 5
processed_limit == 2

MessageTs == 1..MaxTs

\* what an event is to process_events: a message of another channel or
\* with a subtype, a message of the bot itself, a text that is no command,
\* or a command of a user
EventKinds == {"other", "bot", "chat", "command"}

\* lines 658-661: the ts is remembered; beyond the limit the smallest goes
Remember(seen, msg_ts) ==
    LET added == seen \cup {msg_ts}
    IN  IF Cardinality(added) > processed_limit
        THEN added \ { CHOOSE oldest_ts \in added : \A t \in added : oldest_ts <= t }
        ELSE added

\* lines 648-715: one event is delivered
ProcessEvents ==
    /\ ndeliveries < MaxDeliveries
    /\ ndeliveries' = ndeliveries + 1
    /\ \E msg_ts \in MessageTs :
         IF slack_events[msg_ts] = "other" \/ msg_ts \in processed_messages
         THEN UNCHANGED <<processed_messages, dispatched>>
         ELSE /\ processed_messages' = Remember(processed_messages, msg_ts)
              /\ dispatched' = IF slack_events[msg_ts] = "command"
                               THEN [dispatched EXCEPT ![msg_ts] = @ + 1]
                               ELSE dispatched
    /\ UNCHANGED <<exceptSlack, slack_events>>

InitSlack ==
    /\ BaseIdle
    /\ SkipIdle
    /\ PostIdle
    /\ ZipIdle
    /\ ScanIdle
    /\ slack_events \in [MessageTs -> EventKinds]
    /\ processed_messages = {}
    /\ dispatched = [t \in MessageTs |-> 0]
    /\ ndeliveries = 0

NextSlack == ProcessEvents

SpecSlack == InitSlack /\ [][NextSlack]_vars


(***************************************************************************)
(* DataDownloaderService.run_full_scan (data-downloader/backend/           *)
(* services.py 83-148) and the ScannerStatusRepository (storage.py         *)
(* 150-196).  run_full_scan is called by the background task of POST       *)
(* /api/scan (app.py 72-75) and by the periodic worker, a process of its   *)
(* own (periodic_worker.py 26-28); nothing keeps two calls apart, and      *)
(* each read and each write of scanner_status.json is one step.  The       *)
(* error recorded for a failed scan is the sequence of the names of the    *)
(* failing seasons, or <<"exc">> for the text of an exception.  alone      *)
(* tells whether a call has run so far without another call under way.     *)
(***************************************************************************)
MaxScans == 3

\* services.py 90: the seasons, most recent first
Seasons == <<"WFR25", "WFR24">>

\* storage.py 170-182: the payload mark_start writes
MarkStart(payload, source) ==
    [payload EXCEPT !.scanning = TRUE, !.source = source, !.error = <<>>]

MarkFinish_stillscanning(payload, success, error) ==
    [payload EXCEPT !.last_result = IF success THEN "success" ELSE "error",
                    !.error = IF success THEN <<>>
                              ELSE IF error = <<>> THEN <<"scan failed">> ELSE error]

\* storage.py 184-196: the payload mark_finish writes
MarkFinish(payload, success, error) ==
    [payload EXCEPT !.scanning = FALSE,
                    !.last_result = IF success THEN "success" ELSE "error",
                    !.error = IF success THEN <<>>
                              ELSE IF error = <<>> THEN <<"scan failed">> ELSE error]

\* services.py 84, storage.py 171: run_full_scan is called; mark_start reads
MarkStartRead(s) ==
    /\ sc[s].pc \in {"idle", "ended"}
    /\ nscans < MaxScans
    /\ nscans' = nscans + 1
    /\ sc' = [t \in Scanners |->
                IF t = s
                THEN [IdleScan EXCEPT
                        !.pc = "mark_start", !.payload = scanner_status,
                        !.alone = \A u \in Scanners \ {s} : sc[u].pc \in {"idle", "ended"}]
                ELSE [sc[t] EXCEPT !.alone = FALSE]]
    /\ UNCHANGED <<exceptScan, scanner_status>>

\* storage.py 172-182: mark_start writes, or the write raises and leaves
\* run_full_scan, which calls it outside its try (services.py 84)
MarkStartWrite(s) ==
    /\ sc[s].pc = "mark_start"
    /\ \E raises \in BOOLEAN :
         IF raises
         THEN /\ sc' = [sc EXCEPT ![s].pc = "raise"]
              /\ UNCHANGED scanner_status
         ELSE /\ scanner_status' = MarkStart(sc[s].payload, s)
              /\ sc' = [sc EXCEPT ![s].pc = "seasons", ![s].i = 1, ![s].attempt = 1]
    /\ UNCHANGED <<exceptScan, nscans>>

\* services.py 91-136: one season is scanned; whatever it raises is caught
\* and its message kept
ScanSeason(s) ==
    /\ sc[s].pc = "seasons"
    /\ sc[s].i <= Len(Seasons)
    /\ \E raises \in BOOLEAN :
         sc' = [sc EXCEPT ![s].i = @ + 1,
                          ![s].errors = IF raises THEN Append(@, Seasons[sc[s].i]) ELSE @]
    /\ UNCHANGED <<exceptScan, scanner_status, nscans>>

\* services.py 138-141 and 146-147, storage.py 185: mark_finish reads
MarkFinishRead(s) ==
    /\ \/ sc[s].pc = "seasons" /\ sc[s].i > Len(Seasons)
       \/ sc[s].pc = "except"
    /\ sc' = [sc EXCEPT ![s].pc = "mark_finish", ![s].payload = scanner_status]
    /\ UNCHANGED <<exceptScan, scanner_status, nscans>>

\* storage.py 186-196: mark_finish writes, or the write raises; the first
\* failure is caught at services.py 145 and mark_finish called again with
\* the text of the exception, the second leaves run_full_scan
MarkFinishWrite(s) ==
    /\ sc[s].pc = "mark_finish"
    /\ \E raises \in BOOLEAN :
         IF raises
         THEN /\ sc' = [sc EXCEPT ![s].pc = IF sc[s].attempt = 1 THEN "except" ELSE "raise",
                                  ![s].attempt = 2]
              /\ UNCHANGED scanner_status
         ELSE /\ scanner_status' =
                    IF sc[s].attempt = 1
                    THEN MarkFinish(sc[s].payload, sc[s].errors = <<>>, sc[s].errors)
                    ELSE MarkFinish(sc[s].payload, FALSE, <<"exc">>)
              /\ sc' = [sc EXCEPT ![s].pc = IF sc[s].attempt = 1 THEN "return" ELSE "raise"]
    /\ UNCHANGED <<exceptScan, nscans>>

\* services.py 143 and 148: run_full_scan returns the results or raises
ScanEnds(s) ==
    /\ sc[s].pc \in {"return", "raise"}
    /\ sc' = [sc EXCEPT ![s].pc = "ended", ![s].how = sc[s].pc]
    /\ UNCHANGED <<exceptScan, scanner_status, nscans>>

InitScan ==
    /\ BaseIdle
    /\ SkipIdle
    /\ PostIdle
    /\ ZipIdle
    /\ SlackIdle
    /\ scanner_status = DefaultStatus
    /\ sc = [s \in Scanners |-> IdleScan]
    /\ nscans = 0

NextScan ==
    \E s \in Scanners :
        \/ MarkStartRead(s) \/ MarkStartWrite(s) \/ ScanSeason(s)
        \/ MarkFinishRead(s) \/ MarkFinishWrite(s) \/ ScanEnds(s)

SpecScan == InitScan /\ [][NextScan]_vars


(***************************************************************************)
(* Properties of the reconciler (specification SpecTs)                     *)
(***************************************************************************)
\* the statements' own reading of a raw timestamp
StatedRelative(ts) == ~Gt(ts, <<946, 684800>>)
StatedMs(ts) == IF Gt(ts, <<1, 0>>) THEN ToInt(ts) ELSE ToInt(ts) * 1000

RelHist == SelectSeq(hist, LAMBDA e : StatedRelative(e.ts))

RECURSIVE Replay(_, _, _)
\* the instants returned when the calls h[i..] are made one after another from state g
Replay(g, h, i) ==
    IF i > Len(h) THEN <<>>
    ELSE LET r == TsToDatetime(g, h[i].ts, h[i].cur)
         IN  <<r.ret>> \o Replay(r.g, h, i + 1)

C2_ResetReanchors ==
    LET h == RelHist
    IN  /\ \A i \in 1..Len(h) : h[i].post.last_raw_ts = StatedMs(h[i].ts)
        /\ \A i \in 2..Len(h) :
             StatedMs(h[i-1].ts) - StatedMs(h[i].ts) > 60000
             => /\ h[i].post.anchor_real = h[i].cur
                /\ h[i].post.anchor_ts = StatedMs(h[i].ts)
                /\ h[i].ret = Wall(h[i].cur)

C2_Witness ==
    /\ Len(hist) = 3
    /\ hist[1].ts = <<0, 100>> /\ hist[2].ts = <<0, 105>> /\ hist[3].ts = <<0, 2>>
    /\ hist[3].cur > hist[1].cur
    /\ hist[3].ret = Wall(now)
    /\ _relative_anchor_ts = 2000 /\ _relative_anchor_real = now

\* C3: when elapsed = raw value - anchor raw value is negative the call returns the
\* anchor wall time: after re-anchoring to (now, raw value) if |elapsed| > 30 s,
\* and with the anchor left unchanged otherwise.
C3_NegativeElapsedGuard ==
    \A i \in 1..Len(hist) :
        LET e == hist[i]
        IN  (StatedRelative(e.ts) /\ e.elapsed < 0)
            => /\ e.elapsed = StatedMs(e.ts) - e.pre.anchor_ts
               /\ e.ret = Wall(e.post.anchor_real)
               /\ IF -e.elapsed > 30000
                  THEN /\ e.post.anchor_real = e.cur
                       /\ e.post.anchor_ts = StatedMs(e.ts)
                  ELSE /\ e.post.anchor_real = e.pre.anchor_real
                       /\ e.post.anchor_ts = e.pre.anchor_ts

C3_Witness ==
    \E i, j \in 1..Len(hist) :
        /\ hist[i].elapsed < 0 /\ -hist[i].elapsed <= 30000
        /\ hist[i].cur > hist[i].pre.anchor_real
        /\ hist[i].ret = Wall(hist[i].pre.anchor_real)
        /\ hist[j].elapsed < -30000
        /\ hist[j].cur > hist[j].pre.anchor_real
        /\ hist[j].ret = Wall(hist[j].cur)

\* C4: a raw value above 978307200000 is absolute milliseconds (divided by 1000),
\* a value above 946684800 and not above 978307200000 is absolute seconds, and a
\* value at or below 946684800 is relative.
C4_Classification ==
    \A i \in 1..Len(hist) :
        LET e == hist[i]
        IN  IF Gt(e.ts, <<978307, 200000>>) THEN e.ret = Epoch(e.ts)
            ELSE IF Gt(e.ts, <<946, 684800>>) THEN e.ret = Epoch(Mul1000(e.ts))
            ELSE e.ret.clock = "wall" /\ ~e.post.first_relative

C4_Witness ==
    /\ Len(hist) = 3
    /\ hist[1].ts = <<946, 684801>> /\ hist[1].ret = Epoch(<<946684, 801000>>)
    /\ hist[2].ts = <<946, 684799>> /\ hist[2].ret = Wall(hist[2].cur)
    /\ hist[3].ts = <<978307, 200001>> /\ hist[3].ret = Epoch(<<978307, 200001>>)

\* C5: a call with an absolute timestamp leaves the anchor state unchanged, so the
\* instants returned for the relative timestamps are those returned when the
\* absolute calls are left out.
C5_AbsoluteLeavesAnchor ==
    /\ \A i \in 1..Len(hist) : ~StatedRelative(hist[i].ts) => hist[i].post = hist[i].pre
    /\ Anchor = (IF hist = <<>> THEN FreshAnchor ELSE hist[Len(hist)].post)
    /\ Replay(FreshAnchor, RelHist, 1) = [i \in 1..Len(RelHist) |-> RelHist[i].ret]

C5_Witness ==
    /\ Len(hist) = 3
    /\ StatedRelative(hist[1].ts) /\ ~StatedRelative(hist[2].ts) /\ StatedRelative(hist[3].ts)
    /\ hist[3].path = "offset" /\ hist[3].elapsed > 0

(***************************************************************************)
(* Properties of concurrent requests (specification SpecConc)              *)
(***************************************************************************)
Orders(n) == { p \in [1..n -> 1..n] : \A i, j \in 1..n : i # j => p[i] # p[j] }

RECURSIVE SerialRun(_, _, _, _)
\* the anchor state and the returned instants when the calls c[p[i..]] run one after another
SerialRun(g, c, p, i) ==
    IF i > Len(c) THEN [g |-> g, rets |-> [k \in {} |-> Wall(0)]]
    ELSE LET call == c[p[i]]
             r == TsToDatetime(g, call.ts, call.current_time)
             rest == SerialRun(r.g, c, p, i + 1)
         IN  [g |-> rest.g,
              rets |-> [k \in {p[i]} \cup DOMAIN rest.rets |->
                           IF k = p[i] THEN r.ret ELSE rest.rets[k]]]

\* C6: calls of _ts_to_datetime made by concurrent requests are serialized: once the
\* overlapping calls have returned, the anchor state and every returned instant
\* equal those of the same calls run one after another in some order.
C6_Serializable ==
    (AllIdle /\ round # <<>>)
    => \E p \in Orders(Len(round)) :
         LET s == SerialRun(base, round, p, 1)
         IN  /\ s.g = Anchor
             /\ \A k \in 1..Len(round) : s.rets[k] = round[k].ret

(***************************************************************************)
(* Properties of several sources (specification SpecSrc)                   *)
(***************************************************************************)
\* C7: the anchor state is per source: the instants returned for the frames of a
\* source are those a reconciler fed with that source's frames alone returns,
\* whatever the other sources send.
C7_PerSourceAnchor ==
    \A s \in Sources :
        LET h == SelectSeq(hist, LAMBDA e : e.src = s)
        IN  Replay(FreshAnchor, h, 1) = [i \in 1..Len(h) |-> h[i].ret]

(***************************************************************************)
(* Properties of ingest_can (specification SpecIngest)                     *)
(***************************************************************************)
\* C8: every submitted frame list ends in a summary response: no frame makes the
\* call raise; the offending frame is skipped and the other frames are processed.
C8_NeverRaises ==
    req.pc = "done"
    => /\ resp.kind = "response"
       /\ resp.code # 400 => Len(req.outcome) = Len(req.frames)

\* C9: the summary has received_frames equal to the number of frames submitted and
\* frame_errors equal to the number of frames skipped at normalize, at lookup or
\* at whole-frame decode, and every other frame has its points.
C9_SummaryCounts ==
    (req.pc = "done" /\ resp.kind = "response" /\ resp.code # 400)
    => /\ resp.received_frames = Len(req.frames)
       /\ req.frame_errors =
            Cardinality({ i \in 1..Len(req.outcome) : req.outcome[i] # "decoded" })
       /\ \A i \in 1..Len(req.outcome) :
            (req.outcome[i] = "decoded" /\ Len(req.frames[i].data.v) >= 1)
            => \E j \in 1..Len(req.points) : req.points[j].frame = i

\* C10: the reconciler runs after lookup and decode: a frame skipped for an unknown
\* CAN id or a whole-frame decode failure leaves the anchor state as it was.
C10_SkippedLeavesAnchor ==
    [][(/\ Len(req'.outcome) > Len(req.outcome)
        /\ req'.outcome[Len(req'.outcome)] \in {"unknown_id", "decode_error"})
       => UNCHANGED anchorVars]_vars

\* C16: once a cancellation is raised during an ingest call, the call takes no
\* further frame: the next step of the call is its response, which reports the
\* frames processed so far.
C16_CancelStopsFrames ==
    [][(cancel /\ req.pc = "loop") => Len(req'.outcome) = Len(req.outcome)]_vars

(***************************************************************************)
(* Properties of the lookup caches (specification SpecCache)               *)
(***************************************************************************)
\* the thread t passes lines 273-275 and reaches the frame loop in this step
EntersLoop(t) == cth[t].pc \in {"idle", "L162", "L165"} /\ cth'[t].pc = "L133"

\* C17: when a request reaches its frame loop no cache is past its cap (message
\* cache 1000, hex-id cache 1000, signal cache 5000): a cache that had grown past
\* the cap was cleared first.
C17_ClearedBeforeFrames ==
    [][\A t \in Threads :
         EntersLoop(t)
         => /\ Cardinality(message_cache') <= MessageCacheCap
            /\ Cardinality(can_id_hex_cache') <= HexCacheCap
            /\ Cardinality(signal_definition_cache') <= SignalCacheCap]_vars

\* the positions whose next statement reads, inserts into or clears a cache
CacheAccess ==
    {"L155", "L157", "L160", "L162", "L165", "L133", "L134", "L137", "L148", "L150",
     "L369", "L375"}

LookupFailed == \E t \in Threads : cth[t].pc = "KeyError"

\* C18: a thread about to read, insert into or clear a lookup cache holds the
\* lock, so that no lookup finds its key taken away by another request between
\* its test and its read.
C18_CacheAccessLocked ==
    /\ \A t \in Threads : cth[t].pc \in CacheAccess => signal_cache_lock = t
    /\ ~LookupFailed

(***************************************************************************)
(* Properties of the signal loops (specification SpecSignals)              *)
(***************************************************************************)
\* C19: a signal that cannot be turned into a point is the only one skipped:
\* every signal of the frame that can, before or after it, has its point.
C19_SiblingsStillYield ==
    dec.by # "none"
    => \A i \in 1..Len(dec.decoded) :
         dec.decoded[i] \notin FailingKinds(dec.by)
         => \E j \in 1..Len(dec.points) : dec.points[j] = i

(***************************************************************************)
(* Properties of _bytes_from_field (specification SpecBytes)               *)
(***************************************************************************)
\* C20: in each of its forms (list, decimal string, 0x-hex string) a sequence of
\* integers normalizes to the bytes value & 0xFF of its values, so the three
\* forms agree and 300 and -5 give 0x2C and 0xFB.
C20_SameBytesInEveryForm ==
    \A form \in Forms :
        norm.out[form] # NotRun
        => norm.out[form] = [exc |-> "",
                             bytes |-> [i \in 1..Len(norm.values) |-> norm.values[i] % 256]]

\* C20 as amended: the list and the decimal string normalize to the bytes
\* value & 0xFF of the values; so does the 0x-hex string when no value is
\* negative, and a negative value written in hex (-0x5) raises ValueError.
C20_MaskedUnlessNegativeHex ==
    \A form \in Forms :
        norm.out[form] # NotRun
        => norm.out[form] =
             IF form = "hex" /\ \E i \in 1..Len(norm.values) : norm.values[i] < 0
             THEN [exc |-> "ValueError", bytes |-> <<>>]
             ELSE [exc |-> "",
                   bytes |-> [i \in 1..Len(norm.values) |-> norm.values[i] % 256]]

\* 300 and -5 were normalized as a list and as a decimal string, to 0x2C 0xFB
C20_Witness ==
    /\ norm.values = <<300, -5>>
    /\ norm.out["list"] = [exc |-> "", bytes |-> <<44, 251>>]
    /\ norm.out["decimal"] = [exc |-> "", bytes |-> <<44, 251>>]
    /\ norm.out["hex"] # NotRun

(***************************************************************************)
(* Properties of the file uploader (specification SpecStream)              *)
(***************************************************************************)
\* the points of the writes whose result is one of results
RECURSIVE SumRows(_, _)
SumRows(ws, results) ==
    IF ws = <<>> THEN 0
    ELSE (IF Head(ws).result \in results THEN Head(ws).rows ELSE 0)
         + SumRows(Tail(ws), results)

AllSettled == \A i \in 1..Len(writes) : writes[i].result # "pending"

\* C11: when the stream call has returned and the sink has rejected a batch for
\* good, the points of that batch are counted as failed and the caller is told:
\* the failed count is the number of points of the failed writes, and no point of
\* a failed write is among the points reported to the caller as sent.
C11_FailuresReported ==
    (main.pc = "returned" /\ AllSettled)
    => /\ stats.failed_rows = SumRows(writes, {"raised", "error"})
       /\ reported <= SumRows(writes, {"ok"})

\* the calls of write_api.write made for the batch b
WriteCalls(b) == Cardinality({ i \in 1..Len(writes) : writes[i].points = b })

\* C12: no batch is handed to the sink more than 1 + max_retries times, and a
\* batch whose write failed has been re-attempted until max_retries retries were
\* spent (or one attempt succeeded) by the time the stream call returns.
C12_BoundedRetry ==
    \A i \in 1..Len(writes) :
        /\ WriteCalls(writes[i].points) <= 1 + max_retries
        /\ (/\ main.pc = "returned"
            /\ writes[i].result \in {"raised", "error"}
            /\ \A j \in 1..Len(writes) :
                 writes[j].points = writes[i].points => writes[j].result # "ok")
           => WriteCalls(writes[i].points) = 1 + max_retries

\* the places a point has in the batches put on the queue
PlacesOf(p) == { <<i, k>> \in (1..Len(puts)) \X (1..batch_size) :
                   k <= Len(puts[i]) /\ puts[i][k] = p }

\* C13: when the stream call returns, every point the row parser yielded is in
\* exactly one batch put on the queue, the last, partial batch of a file
\* included, and every batch put on the queue has been handed to write_api.write.
C13_AtLeastOnce ==
    main.pc = "returned"
    => /\ \A p \in 1..prod.yielded : Cardinality(PlacesOf(p)) = 1
       /\ \A i \in 1..Len(puts) : WriteCalls(puts[i]) >= 1

\* a stream has returned after a full batch and a partial last batch were queued
C13_Witness ==
    /\ main.pc = "returned"
    /\ \E i, j \in 1..Len(puts) : Len(puts[i]) = batch_size /\ Len(puts[j]) < batch_size
    /\ prod.yielded >= 3

ProducerBlocked == prod.pc \in {"put", "put_last"} /\ Len(queue) >= max_queue_size

\* C14: the queue never holds more than max_queue_size items; a producer that
\* finds it full stays where it is with its one batch, of at most batch_size
\* points, until an uploader has taken an item.
C14_BoundedQueue ==
    [][/\ Len(queue') <= max_queue_size
       /\ Len(prod'.batch) <= batch_size
       /\ ProducerBlocked => (prod' = prod /\ puts' = puts)]_vars

\* the producer waits with a full batch at a full queue
C14_Witness ==
    /\ ProducerBlocked
    /\ Len(prod.batch) = batch_size
    /\ \A i \in 1..Len(queue) : ~queue[i].sentinel

CloseOrder == <<"write_api.flush", "write_api.close", "client.close">>

\* C15: close() calls flush first, then closes the write API, then the client:
\* the calls made so far are always the first calls of that order, and when
\* close() is over all three were made, whichever of them raised.
C15_FlushThenClose ==
    /\ Len(sink) <= 3
    /\ \A i \in 1..Len(sink) : sink[i].op = CloseOrder[i]
    /\ main.pc = "closed" => Len(sink) = 3

\* close() is over after a stream that queued a batch, and both the flush and
\* the closing of the write API raised
C15_Witness ==
    /\ main.pc = "closed"
    /\ puts # <<>>
    /\ sink[1].raised /\ sink[2].raised

(***************************************************************************)
(* Properties of one frame on each path (specification SpecFrame)          *)
(***************************************************************************)
\* an id that is an integer, a decimal string or a 0x-prefixed hexadecimal string
WellFormedId(id) ==
    \/ id.k = "int"
    \/ /\ id.k = "str"
       /\ Len(id.v) = 1
       /\ id.v[1].prefix \in {"", "0x"}
       /\ id.v[1].digits # <<>>
       /\ \A i \in 1..Len(id.v[1].digits) : id.v[1].digits[i] < RadixOf(id.v[1].prefix)

\* C21: a frame whose id is not an integer, a decimal string or a 0x-prefixed
\* hexadecimal string is skipped by the /can handler as malformed and counted
\* as one frame error; it is neither looked up nor decoded.
C21_MalformedIdRejected ==
    (rd.k = "frame" /\ rd.out["listener"].ran /\ ~WellFormedId(rd.id))
    => /\ rd.out["listener"].outcome = "malformed"
       /\ rd.out["listener"].errors = 1
       /\ rd.out["listener"].points = <<>>

\* the signals of MsgA (id 256) that lie within the supplied bytes
FittingSignals(payload) ==
    (IF Len(payload) >= 1 THEN {"speed"} ELSE {}) \cup (IF Len(payload) >= 2 THEN {"mode"} ELSE {})

\* C22: on every path a frame of the 8-byte message MsgA that supplies fewer
\* than 8 bytes is decoded: each signal lying within the supplied bytes has
\* its point.
C22_TruncatedStillDecoded ==
    rd.k = "frame"
    => \A path \in Paths :
         (rd.out[path].ran /\ rd.id = JInt(256) /\ Len(rd.payload) \in 1..7)
         => \A name \in FittingSignals(rd.payload) :
              \E i \in 1..Len(rd.out[path].points) :
                  rd.out[path].points[i].tags.signalName = name

\* C23: on every path the unit of a reading is a string, and it is "N/A" for
\* the signal mode, for which the DBC records no unit.
C23_UnitDefaultsToNA ==
    rd.k = "frame"
    => \A path \in Paths : \A i \in 1..Len(rd.out[path].points) :
         LET p == rd.out[path].points[i]
         IN  /\ p.fields.unit # NoUnit
             /\ p.tags.signalName = "mode" => p.fields.unit = "N/A"

\* the instant each path resolves the frame's timestamp to
ResolvedTime(path) ==
    CASE path = "listener" -> TsToDatetime(FreshAnchor, FrameTs, 0).ret
      [] path = "helper" -> [clock |-> "start", ms |-> ToInt(FrameTs)]
      [] OTHER -> Epoch(Mul1000(FrameTs))

\* C24: on every path a reading is a record with exactly the tags messageName,
\* signalName and canIdHex, the id as 0x and its hexadecimal digits, exactly
\* the fields sensorReading, unit and signalLabel, and the resolved time of
\* its frame.
C24_RecordShape ==
    rd.k = "frame"
    => \A path \in Paths : \A i \in 1..Len(rd.out[path].points) :
         LET p == rd.out[path].points[i]
         IN  /\ DOMAIN p.tags = {"messageName", "signalName", "canIdHex"}
             /\ p.tags.canIdHex = GetCachedHexId(ParseId(rd.id).can_id)
             /\ DOMAIN p.fields = {"sensorReading", "unit", "signalLabel"}
             /\ p.time = ResolvedTime(path)

(***************************************************************************)
(* Properties of the runs repository (specification SpecStore)             *)
(***************************************************************************)
\* C25: once update_note and merge_scanned_runs have both returned, the
\* stored run carries the note that update_note saved, however their reads
\* and writes of the store were interleaved.
C25_NoteSurvivesMerge ==
    (mrg.pc = "idle" /\ upd.pc = "idle")
    => \A k \in Keys :
         last_note[k] # "" => (k \in DOMAIN store.runs /\ store.runs[k].note = last_note[k])

\* C26: the write of a merge that found the store as it had read it keeps
\* every run that has a note, with the same note and note_updated_at, whether
\* or not the scan holds its key.
C26_MergeKeepsNotes ==
    [][(mrg.pc = "write" /\ mrg'.pc = "idle" /\ store = mrg.current)
       => \A k \in DOMAIN store.runs :
            store.runs[k].note # ""
            => /\ k \in DOMAIN store'.runs
               /\ store'.runs[k].note = store.runs[k].note
               /\ store'.runs[k].note_updated_at = store.runs[k].note_updated_at]_vars

C26_Witness ==
    /\ mrg.pc = "idle"
    /\ mrg.n > 0
    /\ store = mrg.payload
    /\ \E k \in DOMAIN mrg.current.runs, j \in DOMAIN mrg.current.runs :
         /\ mrg.current.runs[k].note # "" /\ k \notin mrg.scanned
         /\ mrg.current.runs[j].note # "" /\ j \in mrg.scanned
         /\ store.runs[k].note = mrg.current.runs[k].note
         /\ store.runs[j].note = mrg.current.runs[j].note
         /\ store.runs[j].scan = mrg.n

(***************************************************************************)
(* Properties of JSONStore (specification SpecJsonStore)                   *)
(***************************************************************************)
\* C27: what a read returns is one complete payload, the one the file held
\* at the start or one that a write was given, whatever writes ran while the
\* file was being read.
C27_ReadsWholePayload ==
    rdr.pc = "done"
    => /\ Len(rdr.got) = Cardinality(Chunks)
       /\ \E p \in 0..nwrites : \A i \in 1..Len(rdr.got) : rdr.got[i] = p

\* a read that began on the old file and went on while a write replaced it
C27_Witness ==
    /\ rdr.pc = "done"
    /\ rdr.replaced
    /\ rdr.got # <<>>
    /\ store_path # rdr.ino

(***************************************************************************)
(* Properties of the startup data loader (specification SpecLoad)          *)
(***************************************************************************)
ValidRows == { i \in 1..Len(rows) : rows[i] = "valid" }

\* C28: when the file has been loaded to its end, over however many
\* interrupted runs, and nothing is left to be sent, every valid row of the
\* file has reached InfluxDB.
C28_ResumeLosesNothing ==
    (ld.pc = "done" /\ buffered = {}) => ValidRows \subseteq influx

\* C30: no row is passed to write_api.write by two runs: a resumed run starts
\* at the first row the runs before it did not write.
C30_ResumeWritesNoRowTwice ==
    \A w1 \in written, w2 \in written : w1[1] = w2[1] => w1[2] = w2[2]

(***************************************************************************)
(* Properties of generate_code (specification SpecGen)                     *)
(***************************************************************************)
Failed(outcome) == outcome \in {"error", "unreachable"}

\* C29: a request runs at most MAX_RETRIES + 1 cycles, none after a
\* successful execution; its response carries max_retries_reached exactly
\* when MAX_RETRIES + 1 executions failed, and then lists MAX_RETRIES retries.
C29_BoundedRetries ==
    /\ Len(gen.results) <= gen.MAX_RETRIES + 1
    /\ \A i \in 1..(Len(gen.results) - 1) : Failed(gen.results[i])
    /\ gen.pc = "loop" => \A i \in 1..Len(gen.results) : Failed(gen.results[i])
    /\ gen.pc = "done"
       => LET all_failed == /\ Len(gen.results) = gen.MAX_RETRIES + 1
                            /\ \A i \in 1..Len(gen.results) : Failed(gen.results[i])
              reached == gen.response.code = 200 /\ gen.response.max_retries_reached
          IN  /\ reached <=> all_failed
              /\ reached => Len(gen.response.retries) = gen.MAX_RETRIES

C29_Witness ==
    /\ gen.pc = "done"
    /\ gen.MAX_RETRIES = 2
    /\ Len(gen.results) = 3
    /\ gen.response.code = 200
    /\ gen.response.max_retries_reached
    /\ Len(gen.response.retries) = 2

(***************************************************************************)
(* Properties of load_startup_data (specification SpecSkip)                *)
(***************************************************************************)
\* C31: the filter of load_startup_data skips a file only if that file was
\* streamed to its end with the content hash it has now: a file replaced by
\* one with another hash after it was completed is processed again.
C31_SkippedOnlyIfCompletedWithSameHash == skipped \subseteq completed_with

(***************************************************************************)
(* Properties of the upload page (specification SpecPost)                  *)
(***************************************************************************)
Streaming == { t \in Tasks : wkr[t].pc = "streaming" }

\* C32: at no time are the workers of two uploads streaming: a POST /upload
\* starts a worker only when the worker of every earlier upload has stopped
\* streaming.
C32_OneWorkerAtATime == Cardinality(Streaming) <= 1

(***************************************************************************)
(* Properties of the write callbacks (specification SpecStream)            *)
(***************************************************************************)
\* C33: once every submitted write has been settled by its callback,
\* processed_rows is the number of rows of the batches whose write succeeded,
\* the rows of every failed batch having been moved to failed_rows:
\* processed_rows + failed_rows is the number of rows of all batches taken
\* from the queue.
C33_OptimisticCountCorrected ==
    AllSettled
    => /\ stats.processed_rows = SumRows(writes, {"ok"})
       /\ stats.processed_rows + stats.failed_rows = SumRows(writes, {"ok", "error", "raised"})

(***************************************************************************)
(* Properties of ZipFileHandler.on_created (specification SpecZip)         *)
(***************************************************************************)
Moved == zh.src_path \notin ingest

MovedOnlyAfterSuccess ==
    /\ Moved => (zh.cleaning_ok /\ zh.upload \in {"ok", "none"})
    /\ (~zh.cleaning_ok \/ zh.upload \in {"failed", "raised"}) => ~Moved
    /\ zh.src_path \notin processing_files

\* C34 as stated: when on_created has handled a zip, the zip has left
\* INGEST_DIR only if cleaning succeeded and the upload succeeded or was not
\* needed, a zip whose cleaning or upload failed is still in INGEST_DIR, the
\* path is out of processing_files, and the temporary CSV is gone.
C34_TempAlwaysRemoved ==
    zh.pc = "handled" => (MovedOnlyAfterSuccess /\ temp_csv = "none")

\* C34, amended: as above, but the temporary CSV is gone unless os.remove
\* raised (the error is logged and the file stays).
C34_HandledZip ==
    zh.pc = "handled"
    => /\ MovedOnlyAfterSuccess
       /\ temp_csv # "none" => zh.remove_raised

\* a zip was cleaned, uploaded and moved, and its temporary CSV removed
C34_Witness ==
    /\ zh.pc = "handled"
    /\ Moved
    /\ zh.upload = "ok"
    /\ temp_csv = "none"
    /\ Len(processed) >= 1

(***************************************************************************)
(* Properties of process_events (specification SpecSlack)                  *)
(***************************************************************************)
\* C35: whatever events are delivered and however often, no message ts is
\* passed to a command handler more than once.
C35_DispatchedAtMostOnce == \A t \in MessageTs : dispatched[t] <= 1

(***************************************************************************)
(* Properties of run_full_scan (specification SpecScan)                    *)
(***************************************************************************)
\* the status records the outcome of the seasons of the call of s
Recorded(s) ==
    /\ ~scanner_status.scanning
    /\ scanner_status.last_result = (IF sc[s].errors = <<>> THEN "success" ELSE "error")
    /\ scanner_status.error = sc[s].errors

\* the status a call of s that raised leaves behind: the one it found when
\* mark_start failed; else "error" with the text of the exception when the
\* second mark_finish went through, and its own "scanning" when not
LeftByException(s) ==
    IF sc[s].attempt = 0
    THEN scanner_status = sc[s].payload
    ELSE /\ sc[s].attempt = 2
         /\ \/ /\ ~scanner_status.scanning
               /\ scanner_status.last_result = "error"
               /\ scanner_status.error = <<"exc">>
            \/ /\ scanner_status.scanning
               /\ scanner_status.source = s

Ends(s) == sc[s].pc # "ended" /\ sc'[s].pc = "ended"

====
